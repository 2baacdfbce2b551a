------------------------------ MODULE QueryPane ------------------------------
(***************************************************************************)
(* A Garden pane whose script runs in the host and whose data comes from a *)
(* client process (garden-app/src/panel_view.rs, script_client.rs,         *)
(* process_pane.rs, app/process.rs; garden-script/src/query.rs).           *)
(*                                                                         *)
(* The main thread polls the pipe (drain, apply, flush), then ticks the    *)
(* panel; a mutation it relays blocks it in await_response.  The client    *)
(* and its pipe run beside it.  A script is free in what it asks for, but  *)
(* asks the same when nothing it sees has changed.                         *)
(***************************************************************************)
EXTENDS QueryCache, FiniteSets, SequencesExt

CONSTANTS
  Ids,       \* bound on outstanding request ids; unused ones are used again
  Policies,  \* the cache policies the client attaches to its answers
  Failing,   \* the versions of the data whose answer is an error
  Threaded,  \* the client pushes from threads besides its serve loop
  Working,   \* an answer with neither value nor error: still loading
  Mutation,  \* a pending mutate request
  Idle       \* the client's serve loop is between requests

ASSUME PaneAssumption ==
  /\ Ids \subseteq Nat
  /\ Policies \subseteq PolicyType
  /\ Failing \subseteq Nat
  /\ Threaded \in BOOLEAN
  /\ Mutation \notin Keys
  /\ Working \notin Answers

\* The main thread and the panel.
VARIABLES
  cache,      \* the shared query cache
  unseen,     \* the query revision has moved since the last tick noted it
  now,        \* the clock, in ticks
  main,       \* poll, pump, flush, tick, await or rest
  left,       \* drained envelopes still to apply
  changed,    \* this pump has applied something
  pendingChanged, \* so has an await_response since the last pump
  awaited,    \* the mutate request awaited
  gate,       \* the host's frame gate, as far as host data moves it
  resources,  \* the host's resource table
  input,      \* an input the script reads has moved since the last run
  wants,      \* the keys the last run queried
  shown,      \* what the last run was given for each key
  wake        \* active, idle (ticked since the last activity) or asleep

\* The pipe and the client.
VARIABLES
  pending,    \* outstanding requests by id
  toClient,   \* requests on their way to the client
  toHost,     \* envelopes on their way to the host
  alive,      \* the client runs
  serving,    \* the response the serve loop has made but not written
  world,      \* the version of each key's data
  working,    \* keys the client has answered "still loading"
  owed        \* keys whose invalidate the client has still to push

pumping == <<main, left, changed, pendingChanged, awaited>>
panel == <<gate, resources, input, wants, shown>>
client == <<alive, serving, world, working, owed>>
vars == <<cache, unseen, now, pumping, panel, wake, pending, toClient, toHost, client>>

FreshGate == [valid |-> FALSE, reads |-> FALSE, changed |-> FALSE]
NotAsked == [kind |-> "not asked", version |-> 0]
NoResources == [k \in Keys |-> Missing]
NothingPending == [i \in {} |-> Mutation]

Init ==
  /\ cache = EmptyCache
  /\ unseen = FALSE /\ now = 0
  /\ main = "poll" /\ left = 0
  /\ changed = FALSE /\ pendingChanged = FALSE /\ awaited = Idle
  /\ gate = FreshGate
  /\ resources = NoResources
  /\ input = FALSE
  /\ wants = {}
  /\ shown = [k \in Keys |-> NotAsked]
  /\ wake = "active"
  /\ pending = NothingPending
  /\ toClient = <<>> /\ toHost = <<>>
  /\ alive = TRUE
  /\ serving = Idle
  /\ world = [k \in Keys |-> 0]
  /\ working = {} /\ owed = {}

-----------------------------------------------------------------------------
(* A frame: PanelView::tick and run_frame.                                 *)

\* What native_query makes of the cache's answer: a loading one becomes the
\* pending value of the key's resource entry, which an earlier error rejected.
Presented(c, k) ==
  LET answer == LookupResult(c, k, now) IN
  IF answer = Loading /\ resources[k] # Missing THEN resources[k] ELSE answer

\* Mutant: a value is remembered as an error is, and shown while its key loads.
ResourceAfterAny(c, k) ==
  LET answer == LookupResult(c, k, now) IN
  IF answer # Loading THEN answer
  ELSE IF resources[k] = Missing THEN Loading ELSE resources[k]

\* The resource entry of k after the script has queried it.
ResourceAfter(c, k) ==
  LET answer == LookupResult(c, k, now) IN
  IF answer.kind = "errored" THEN answer
  ELSE IF answer = Loading /\ resources[k] = Missing THEN Loading
  ELSE resources[k]

\* run_frame tells the gate that host data moved.
Noted == unseen \/ RevalidationDue(cache, now)

FrameNeeded ==
  \/ ~gate.valid
  \/ input
  \/ gate.reads /\ (gate.changed \/ Noted)

\* The script sees something its last run did not: it may ask for other keys.
SeesNews ==
  input \/ ~gate.valid \/ \E k \in wants : Presented(cache, k) # shown[k]

\* A run queries the keys ks, finitely many.  In answer to input it may also invalidate keys,
\* before its queries or after them.
RunFrame(ks, dropped, before, order) ==
  LET asked == IF before THEN Invalidated(cache, dropped) ELSE cache
      looked == LookedUp(asked, ks, order, now)
  IN
  /\ wake # "asleep" /\ FrameNeeded
  /\ IsFiniteSet(ks)
  /\ SeesNews \/ ks = wants
  /\ input \/ dropped = {}
  /\ order \in SetToSeqs(Needed(asked, ks, now))
  /\ cache' = IF before THEN looked ELSE Invalidated(looked, dropped)
  /\ unseen' = (dropped # {})
  /\ shown' = [k \in Keys |-> IF k \in ks THEN Presented(asked, k) ELSE NotAsked]
  /\ resources' = [k \in Keys |-> IF k \in ks THEN ResourceAfter(asked, k)
                                  ELSE resources[k]]
  /\ wants' = ks
  /\ gate' = [valid |-> TRUE, reads |-> ks # {}, changed |-> FALSE]
  /\ input' = FALSE
  /\ wake' = "idle"

\* The gate answers None: the last frame's commands stand.
SkipFrame ==
  /\ wake # "asleep" /\ ~FrameNeeded
  /\ gate' = [gate EXCEPT !.changed = @ \/ Noted]
  /\ unseen' = FALSE
  /\ wake' = "idle"
  /\ UNCHANGED <<cache, resources, input, wants, shown>>

\* A sleeping panel is not ticked at all.
TickAsleep ==
  /\ wake = "asleep"
  /\ UNCHANGED <<cache, unseen, panel, wake>>

\* tick_panels follows every poll, and runs between two polls too.
Tick ==
  /\ main \in {"poll", "tick"}
  /\ \/ \E ks, dropped \in SUBSET Keys, before \in BOOLEAN :
          \E order \in SetToAllKPermutations(ks) : RunFrame(ks, dropped, before, order)
     \/ SkipFrame
     \/ TickAsleep
  /\ main' = "poll"
  /\ UNCHANGED <<now, left, changed, pendingChanged, awaited, pending, toClient,
                 toHost, client>>

\* Input the script reads, or a new size or theme: the panel wakes.
Input ==
  /\ main \in {"poll", "tick"}
  /\ input' = TRUE
  /\ wake' = "active"
  /\ UNCHANGED <<cache, unseen, now, pumping, gate, resources, wants, shown,
                 pending, toClient, toHost, client>>

\* PANEL_WAKE has passed since the last activity.
FallAsleep ==
  /\ wake = "idle"
  /\ wake' = "asleep"
  /\ UNCHANGED <<cache, unseen, now, pumping, panel, pending, toClient, toHost,
                 client>>

TimePasses ==
  /\ now' = now + 1
  /\ UNCHANGED <<cache, unseen, pumping, panel, wake, pending, toClient, toHost,
                 client>>

-----------------------------------------------------------------------------
(* Envelopes and request ids.                                              *)

Query(id, k) == [what |-> "query", id |-> id, key |-> k]
Mutate(id) == [what |-> "mutate", id |-> id]
Answer(id, answer, policy) ==
  [what |-> "answer", id |-> id, answer |-> answer, policy |-> policy]
Mutated(id) == [what |-> "mutated", id |-> id]
Invalidate(k) == [what |-> "invalidate", key |-> k]
SetScript(compiles) == [what |-> "setScript", compiles |-> compiles]

Correlated == {"query", "mutate", "answer", "mutated"}
SomeoneHolds(id) ==
  \/ id \in DOMAIN pending
  \/ serving # Idle /\ serving.id = id
  \/ \E s \in {toClient, toHost} : \E i \in DOMAIN s :
       s[i].what \in Correlated /\ s[i].id = id

\* Mutant: the counter of ids starts over with every request.
FreshIdsAnew == Ids

\* fresh_id: an id no earlier request still in sight has.
FreshIds == {id \in Ids : ~SomeoneHolds(id)}

FreshId == CHOOSE id \in FreshIds : \A other \in FreshIds : id <= other

\* Write a request; the pipe of a client that has gone swallows it.
Send(id, request, message) ==
  /\ pending' = [i \in DOMAIN pending \union {id} |->
                   IF i = id THEN request ELSE pending[i]]
  /\ toClient' = IF alive THEN Append(toClient, message) ELSE toClient

\* ProcessPane::complete.
Completed(id) == [i \in DOMAIN pending \ {id} |-> pending[i]]

-----------------------------------------------------------------------------
(* pump_client: drain, apply one envelope after the other, flush.          *)

\* Mutant: what an await_response changed is forgotten by the next pump.
ForgetPending == FALSE

\* What an await_response changed counts for the next pump.
CarriedOver == pendingChanged

StartPump ==
  /\ main = "poll"
  /\ main' = "pump"
  /\ left' = Len(toHost)
  /\ changed' = CarriedOver
  /\ pendingChanged' = FALSE
  /\ UNCHANGED <<cache, unseen, now, awaited, panel, wake, pending, toClient,
                 toHost, client>>

\* The envelope changed something: noted for this pump, or for the next one
\* when await_response applies it.
NoteChanged ==
  /\ changed' = (changed \/ main = "pump")
  /\ pendingChanged' = (pendingChanged \/ main # "pump")

\* Mutant: the answer is stored without moving the revision.
StoreQuietly(k, answer, policy) ==
  /\ cache' = Resolved(cache, k, answer, policy, now)
  /\ UNCHANGED unseen

\* SharedQueryState::resolve, for a value or an error.
Store(k, answer, policy) ==
  /\ cache' = Resolved(cache, k, answer, policy, now)
  /\ unseen' = TRUE

\* A query's response: neither value nor error leaves the key in flight, and an
\* error has no policy on the wire.
ApplyAnswer(e) ==
  /\ e.what = "answer"
  /\ pending' = Completed(e.id)
  /\ IF e.answer = Working THEN UNCHANGED <<cache, unseen>>
     ELSE Store(pending[e.id], e.answer,
                IF e.answer.kind = "errored" THEN Forever ELSE e.policy)
  /\ NoteChanged
  /\ UNCHANGED <<main, panel>>

\* A mutation's response: the one awaited ends the wait, once the rest of the
\* drained batch is applied; a late one is dropped.
ApplyMutated(e) ==
  /\ e.what = "mutated"
  /\ pending' = Completed(e.id)
  /\ main' = IF main = "await" /\ e.id = awaited THEN "rest" ELSE main
  /\ UNCHANGED <<cache, unseen, changed, pendingChanged, panel>>

ApplyInvalidate(e) ==
  /\ e.what = "invalidate"
  /\ cache' = Invalidated(cache, {e.key})
  /\ unseen' = TRUE
  /\ NoteChanged
  /\ UNCHANGED <<main, pending, panel>>

\* setScript builds a new host over the same cache; one that does not compile
\* leaves the old host in place.
ApplySetScript(e) ==
  /\ e.what = "setScript"
  /\ IF e.compiles
     THEN /\ gate' = FreshGate
          /\ resources' = NoResources
          /\ UNCHANGED <<input, wants, shown>>
     ELSE UNCHANGED panel
  /\ NoteChanged
  /\ UNCHANGED <<cache, unseen, main, pending>>

\* Mutant: the newest of the drained envelopes is applied first.
ApplyNewest ==
  /\ left > 0
  /\ LET e == Last(toHost) IN
       ApplyAnswer(e) \/ ApplyMutated(e) \/ ApplyInvalidate(e) \/ ApplySetScript(e)
  /\ toHost' = Front(toHost)
  /\ left' = left - 1
  /\ UNCHANGED <<now, awaited, wake, toClient, client>>

ApplyNext ==
  /\ left > 0
  /\ LET e == Head(toHost) IN
       ApplyAnswer(e) \/ ApplyMutated(e) \/ ApplyInvalidate(e) \/ ApplySetScript(e)
  /\ toHost' = Tail(toHost)
  /\ left' = left - 1
  /\ UNCHANGED <<now, awaited, wake, toClient, client>>

StartFlush ==
  /\ main = "pump" /\ left = 0
  /\ main' = "flush"
  /\ UNCHANGED <<cache, unseen, now, left, changed, pendingChanged, awaited,
                 panel, wake, pending, toClient, toHost, client>>

\* flush_query_outbox, one request.
FlushNext ==
  /\ main = "flush"
  /\ cache.outbox # <<>> /\ FreshIds # {}
  /\ Send(FreshId, Head(cache.outbox), Query(FreshId, Head(cache.outbox)))
  /\ cache' = [cache EXCEPT !.outbox = Tail(@)]
  /\ UNCHANGED <<unseen, now, pumping, panel, wake, toHost, client>>

\* The pump returns; poll_script_clients wakes the panel if it changed anything.
EndPump ==
  /\ main = "flush" /\ cache.outbox = <<>>
  /\ main' = "tick"
  /\ changed' = FALSE
  /\ wake' = IF changed THEN "active" ELSE wake
  /\ UNCHANGED <<cache, unseen, now, left, pendingChanged, awaited, panel, pending,
                 toClient, toHost, client>>

-----------------------------------------------------------------------------
(* client_mutate: send, then await_response until its answer or a timeout. *)

StartMutate ==
  /\ main = "poll" /\ gate.valid
  /\ FreshIds # {}
  /\ Send(FreshId, Mutation, Mutate(FreshId))
  /\ main' = "await" /\ awaited' = FreshId
  /\ UNCHANGED <<cache, unseen, now, left, changed, pendingChanged, panel, wake,
                 toHost, client>>

\* drain_for: the next batch.
AwaitDrain ==
  /\ main = "await" /\ left = 0 /\ toHost # <<>>
  /\ left' = Len(toHost)
  /\ UNCHANGED <<cache, unseen, now, main, changed, pendingChanged, awaited, panel,
                 wake, pending, toClient, toHost, client>>

\* Mutant: the awaited answer ends the wait at once, and the rest of the drained
\* batch is lost.
AwaitOverAtOnce ==
  /\ main = "rest" \/ (main = "await" /\ left = 0)
  /\ main' = "poll" /\ awaited' = Idle
  /\ toHost' = SubSeq(toHost, left + 1, Len(toHost)) /\ left' = 0
  /\ UNCHANGED <<cache, unseen, now, changed, pendingChanged, panel, wake, pending,
                 toClient, client>>

\* The answer has come and the batch with it is applied, or the time is up.
AwaitOver ==
  /\ main \in {"await", "rest"} /\ left = 0
  /\ main' = "poll" /\ awaited' = Idle
  /\ UNCHANGED <<cache, unseen, now, left, changed, pendingChanged, panel, wake,
                 pending, toClient, toHost, client>>

-----------------------------------------------------------------------------
(* The client: a serve loop, and pushes.                                   *)

DataAnswer(k) ==
  [kind |-> IF world[k] \in Failing THEN "errored" ELSE "ready", version |-> world[k]]

\* The serve loop takes a request and its handler answers from the data as it
\* is; a handler that hands the work to a thread answers "still loading".
Take(what) ==
  /\ alive /\ serving = Idle
  /\ toClient # <<>> /\ Head(toClient).what = what
  /\ toClient' = Tail(toClient)
  /\ UNCHANGED <<cache, unseen, now, pumping, panel, wake, pending, toHost, alive>>

ServeQuery(busy, policy) ==
  /\ Take("query")
  /\ LET m == Head(toClient) IN
       /\ serving' = Answer(m.id, IF busy THEN Working ELSE DataAnswer(m.key), policy)
       /\ working' = IF busy THEN working \union {m.key} ELSE working
  /\ UNCHANGED <<world, owed>>

\* A mutation may edit the data of some keys.
ServeMutate(edited) ==
  /\ Take("mutate")
  /\ serving' = Mutated(Head(toClient).id)
  /\ world' = [k \in Keys |-> IF k \in edited THEN world[k] + 1 ELSE world[k]]
  /\ owed' = owed \union edited
  /\ UNCHANGED working

\* The serve loop writes its response, one whole envelope.
Respond ==
  /\ serving # Idle
  /\ toHost' = Append(toHost, serving)
  /\ serving' = Idle
  /\ UNCHANGED <<cache, unseen, now, pumping, panel, wake, pending, toClient, alive,
                 world, working, owed>>

MayPush == alive /\ (Threaded \/ serving = Idle)

\* Data changes behind the client, which will push an invalidate for it.
DataChanges(k) ==
  /\ alive
  /\ world' = [world EXCEPT ![k] = @ + 1]
  /\ owed' = owed \union {k}
  /\ UNCHANGED <<cache, unseen, now, pumping, panel, wake, pending, toClient, toHost,
                 alive, serving, working>>

\* A job behind a "still loading" answer lands.
WorkDone(k) ==
  /\ alive /\ k \in working
  /\ working' = working \ {k}
  /\ owed' = owed \union {k}
  /\ UNCHANGED <<cache, unseen, now, pumping, panel, wake, pending, toClient, toHost,
                 alive, serving, world>>

PushInvalidate(k) ==
  /\ MayPush /\ k \in owed
  /\ toHost' = Append(toHost, Invalidate(k))
  /\ owed' = owed \ {k}
  /\ UNCHANGED <<cache, unseen, now, pumping, panel, wake, pending, toClient, alive,
                 serving, world, working>>

\* A hot-reload watcher pushes from a thread of its own, also while the loop serves.
PushScript(compiles) ==
  /\ alive
  /\ toHost' = Append(toHost, SetScript(compiles))
  /\ UNCHANGED <<cache, unseen, now, pumping, panel, wake, pending, toClient, client>>

\* The client dies.  What it wrote is still read.
ClientExits ==
  /\ alive
  /\ alive' = FALSE
  /\ toClient' = <<>> /\ serving' = Idle
  /\ working' = {} /\ owed' = {}
  /\ UNCHANGED <<cache, unseen, now, pumping, panel, wake, pending, toHost, world>>

-----------------------------------------------------------------------------
Pump == StartPump \/ ApplyNext \/ StartFlush \/ FlushNext \/ EndPump
Await == AwaitDrain \/ AwaitOver
ServeLoop ==
  \/ \E policy \in Policies : ServeQuery(FALSE, policy)
  \/ ServeMutate({})
  \/ Respond
Pushes == \E k \in Keys : WorkDone(k) \/ PushInvalidate(k)

\* What the program and its client go on doing by themselves.
Steps == Tick \/ Pump \/ Await \/ ServeLoop \/ Pushes

\* What the user, the data and the clock bring about.
Slow == \E policy \in Policies : ServeQuery(TRUE, policy)
Edit == \E edited \in SUBSET Keys \ {{}} : ServeMutate(edited)
Change == \E k \in Keys : DataChanges(k)
Script == \E compiles \in BOOLEAN : PushScript(compiles)
Events ==
  \/ Input \/ FallAsleep \/ TimePasses \/ StartMutate
  \/ Slow \/ Edit \/ Change \/ Script \/ ClientExits

Next == Steps \/ Events

Spec == Init /\ [][Next]_vars

\* The main thread goes on, the client serves what it is sent, ends its jobs and
\* pushes what it owes.  Nobody has to touch the mouse, and data may rest.
Fairness ==
  /\ WF_vars(Pump)
  /\ WF_vars(main = "tick" /\ Tick)
  /\ WF_vars(Await)
  /\ WF_vars(ServeLoop)
  /\ WF_vars(Pushes)

-----------------------------------------------------------------------------
(* Properties.                                                             *)

\* What goes over the pipe.
Requests == [what : {"query"}, id : Ids, key : Keys] \union [what : {"mutate"}, id : Ids]
Responses ==
  [what : {"answer"}, id : Ids, answer : Answers \union {Working}, policy : PolicyType]
    \union [what : {"mutated"}, id : Ids]
Envelopes ==
  Responses \union [what : {"invalidate"}, key : Keys]
            \union [what : {"setScript"}, compiles : BOOLEAN]

ASSUME IdleAssumption == Idle \notin Responses

MainTyped ==
  /\ unseen \in BOOLEAN /\ now \in Nat
  /\ main \in {"poll", "pump", "flush", "tick", "await", "rest"}
  /\ left \in 0 .. Len(toHost)
  /\ {changed, pendingChanged} \subseteq BOOLEAN
  /\ awaited \in Ids \union {Idle}
PanelTyped ==
  /\ gate \in [valid : BOOLEAN, reads : BOOLEAN, changed : BOOLEAN]
  /\ resources \in [Keys -> Answers \union {Missing, Loading}]
  /\ input \in BOOLEAN
  /\ wants \subseteq Keys
  /\ shown \in [Keys -> Answers \union {NotAsked, Loading}]
  /\ wake \in {"active", "idle", "asleep"}
PipeTyped ==
  /\ DOMAIN pending \subseteq Ids
  /\ \A id \in DOMAIN pending : pending[id] \in Keys \union {Mutation}
  /\ toClient \in Seq(Requests) /\ toHost \in Seq(Envelopes)
ClientTyped ==
  /\ alive \in BOOLEAN
  /\ serving \in Responses \union {Idle}
  /\ world \in [Keys -> Nat]
  /\ working \subseteq Keys /\ owed \subseteq Keys

\* A response on its way answers a request that is outstanding, of its kind.
Answering == \A e \in ToSet(toHost) \union ({serving} \ {Idle}) :
  /\ e.what = "answer" => e.id \in DOMAIN pending /\ pending[e.id] \in Keys
  /\ e.what = "mutated" => e.id \in DOMAIN pending /\ pending[e.id] = Mutation

\* Every variable holds a value of its kind; each response on its way answers a
\* request that is still outstanding and of its kind.
TypeOK ==
  /\ cache \in CacheType
  /\ MainTyped /\ PanelTyped /\ PipeTyped /\ ClientTyped
  /\ Answering

OnItsWay(id) ==
  \/ \E s \in {toClient, toHost} : \E i \in DOMAIN s :
       s[i].what \in Correlated /\ s[i].id = id
  \/ serving # Idle /\ serving.id = id

InvalidateComing(k) ==
  k \in owed \/ \E i \in DOMAIN toHost : toHost[i] = Invalidate(k)

\* A key in flight is never forgotten: while the client lives, its request is
\* queued, or on its way to an answer, or the client is working on it and will
\* push an invalidate.  Nothing else ever clears the mark.
InFlightBacked == alive => \A k \in cache.requested :
  \/ k \in ToSet(cache.outbox)
  \/ \E id \in DOMAIN pending : pending[id] = k /\ OnItsWay(id)
  \/ k \in working \/ InvalidateComing(k)

\* When the gate would skip the next frame, another run would be given for each
\* key what the last one was, and would have nothing to fetch: every answer and
\* invalidate since then, and every answer gone stale, has reached the gate.
SkippedFrameIsCurrent ==
  wake # "asleep" /\ ~FrameNeeded =>
    \A k \in wants :
      /\ shown[k] = Presented(cache, k)
      /\ Held(cache, k, now) = "fresh" \/ k \in cache.requested

\* A cached answer older than the client's data is about to be dropped: the
\* invalidate for it is still to come.
OutdatedIsInvalidated == alive => \A k \in Keys :
  cache.entries[k] # Missing /\ cache.entries[k].answer.version < world[k]
    => InvalidateComing(k)

\* What a script asks for arrives: the panel comes to show the client's data as
\* it is, however requests, answers, invalidates, reloads, mutations and sleep
\* are interleaved, unless the script stops asking or the client dies.
ShowsLatest == \A k \in Keys :
  k \in wants ~> \/ k \notin wants
                 \/ ~alive
                 \/ shown[k] = DataAnswer(k)

-----------------------------------------------------------------------------
(* The pane and its client implement Feed.                                 *)

\* The envelope has an answer for k.
Carries(e, k) == e.what = "answer" /\ e.answer # Working /\ pending[e.id] = k

\* The answers for k on their way.
Coming(k) == {e \in ToSet(toHost) \union ({serving} \ {Idle}) : Carries(e, k)}

\* The versions of k the pane may still be given: that of the cached answer,
\* of the answers on their way, and of the data.
InReach(k) ==
  {world[k]}
    \union {e.answer.version : e \in Coming(k)}
    \union {cache.entries[j].answer.version : j \in {i \in {k} : cache.entries[i] # Missing}}

Oldest(k) == CHOOSE v \in InReach(k) : \A other \in InReach(k) : v <= other

F == INSTANCE Feed WITH data <- world, reach <- [k \in Keys |-> Oldest(k)]

\* What a pane shows of a key is what the data was at some time, and it never
\* goes back to an older one, whatever is asked twice, answered late, invalidated,
\* expired, answered "still loading" or reloaded in between.
ImplementsFeed == F!Spec

=============================================================================
