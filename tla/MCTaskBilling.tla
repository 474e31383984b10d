---------------------------- MODULE MCTaskBilling ----------------------------
(* Small instances of TaskBilling for TLC. *)
EXTENDS TaskBilling, TLC

CONSTANTS p1, p2, c1

A(kind, channel, time, upstream) ==
  [kind |-> kind, channel |-> channel, submitTime |-> time, upstreamTime |-> upstream]

\* Submission times before, between and after the two readings of the legacy
\* cutoff: 2025-01-01, 2025-07-01 and 2026-03-01.
Old == 1735689600
Recent == 1751328000
New == 1772323200

\* Tasks polled by CAS.
VideoAttributes == {A("video", c1, New, 0), A("video", c1, Old, 0)}

\* Tasks of both polling functions; Suno reports a submit time of its own.
MixedAttributes == {A("video", c1, New, 0), A("suno", c1, New, Recent)}

GeminiAttributes == {A("gemini", c1, New, 0)}
RecentAttributes == {A("video", c1, Recent, 0)}

MCPollers == {p1, p2}
PollerSymmetry == Permutations(MCPollers)
=============================================================================
