---------------------------- MODULE MCQueryPane ----------------------------
(***************************************************************************)
(* Small instances of QueryPane for TLC: a behaviour has at most MaxEvents *)
(* of the Allowed kinds of events that the user, the data and the clock    *)
(* bring about, in any order and at any point of what the program does by  *)
(* itself.                                                                 *)
(***************************************************************************)
EXTENDS QueryPane

CONSTANTS
  Allowed,   \* the kinds of events of the instance
  MaxEvents  \* how many of them a behaviour has

VARIABLE events  \* how many there have been

mcvars == <<vars, events>>

MCInit == Init /\ events = 0

Kind(name, event) == name \in Allowed /\ event

MCEvents ==
  /\ events < MaxEvents
  /\ events' = events + 1
  /\ \/ Kind("input", Input)
     \/ Kind("sleep", FallAsleep)
     \/ Kind("time", TimePasses)
     \/ Kind("mutate", StartMutate)
     \/ Kind("slow", Slow)
     \/ Kind("edit", Edit)
     \/ Kind("change", Change)
     \/ Kind("script", Script)
     \/ Kind("exit", ClientExits)

MCNext == (Steps /\ UNCHANGED events) \/ MCEvents

MCSpec == MCInit /\ [][MCNext]_mcvars

\* The scheduling of QueryPane's Fairness: events may stop, steps do not.
MCFair ==
  /\ MCSpec
  /\ WF_mcvars(Pump /\ UNCHANGED events)
  /\ WF_mcvars(main = "tick" /\ Tick /\ UNCHANGED events)
  /\ WF_mcvars(Await /\ UNCHANGED events)
  /\ WF_mcvars(ServeLoop /\ UNCHANGED events)
  /\ WF_mcvars(Pushes /\ UNCHANGED events)

\* The client's policies: fresh forever, one millisecond and then stale for
\* another, and never fresh.
Aging == [noStore |-> FALSE, maxAge |-> 1, swr |-> 1]
Live == [noStore |-> TRUE, maxAge |-> Unlimited, swr |-> 0]
ForeverOnly == {Forever}
Changing == {Aging, Live}
=============================================================================
