-------------------------------- MODULE Feed --------------------------------
(***************************************************************************)
(* What a pane's script may be shown of the data behind its queries        *)
(* (garden/docs/gpp.md; petal-query/src/cache.rs, garden-script/src/       *)
(* query.rs), whatever cache, pipe and client do between the two: for each *)
(* key an answer the data really had, and never one from before an answer  *)
(* already shown.  It may lag, and it may be loading.                      *)
(*                                                                         *)
(* QueryPane implements this; there are no requests, messages, policies or *)
(* clocks here.                                                            *)
(***************************************************************************)
EXTENDS Naturals

CONSTANT Keys  \* what scripts may ask for

VARIABLES
  data,   \* the version of each key's data
  reach,  \* the version of each key that is within reach of the pane
  shown   \* what the last run was given for each key

vars == <<data, reach, shown>>

Init ==
  /\ data  = [k \in Keys |-> 0]
  /\ reach = [k \in Keys |-> 0]
  /\ \A k \in Keys : shown[k].kind = "not asked"

\* News travels: what is within reach never goes back, nor past the data.
Onward == \A k \in Keys : reach[k] <= reach'[k] /\ reach'[k] <= data'[k]

Change ==
  /\ \A k \in Keys : data[k] <= data'[k]
  /\ Onward
  /\ UNCHANGED shown

\* A value shown is the one within reach; an error may be an earlier one.
Shows(k, answer) ==
  \/ answer.kind \in {"not asked", "loading"}
  \/ answer.kind = "ready" /\ answer.version = reach[k]
  \/ answer.kind = "errored" /\ answer.version <= reach[k]

Frame ==
  /\ \A k \in Keys : Shows(k, shown'[k])
  /\ Onward
  /\ UNCHANGED data

Next == Change \/ Frame

Spec == Init /\ [][Next]_vars

\* Once an answer of version v has been shown for k no older value is, however
\* often the key has been loading in between: the screen never goes back.
NeverBack(k, v) ==
  [](shown[k].kind \in {"ready", "errored"} /\ shown[k].version = v
       => [](shown[k].kind = "ready" => v <= shown[k].version))

=============================================================================
