------------------------------ MODULE Feedback ------------------------------
(***************************************************************************)
(* What the coordinator remembers of its deliveries and shows on the       *)
(* dashboard: the last and the recent notifications, the feed, the daily   *)
(* counters; and what comes back from the user: acknowledgements, snoozes  *)
(* and dismissals, from phones, chats and services.  coordinator.py.       *)
(*                                                                         *)
(* A phone shows a notification before its delivery to the other channels  *)
(* has ended and is recorded, so that an answer may come first; answers    *)
(* wait for other phones and for the file; midnight, reloads and restarts  *)
(* come at any time.                                                       *)
(*                                                                         *)
(* A reload replaces the coordinator by one that loads the file.  What was *)
(* suspended goes on with the old one, whose memory and store it holds,    *)
(* and its save then overwrites the file of the new one.                   *)
(***************************************************************************)
EXTENDS Integers, FiniteSets, SequencesExt

CONSTANTS
    Ids,       \* notifications; a request may use one again
    Cut,       \* Cut[n]: the part of n before its first separator
    Senders,   \* deliveries at a time
    Answers,   \* answers of users, each given once
    Route,     \* the channels of a delivery, in order, among:
    Feed, Phone, \* a dashboard channel and a mobile one
    Voice,     \* the channels that speak, in order, as far as somebody is home
    Ends,      \* how a delivery to each of them may end
    Tested,    \* the channels whose test button is used
    Limit, AckLimit, \* lengths of the lists and of the acknowledgements kept
    MaxEvents  \* bound on the requests, deliveries, days, reloads and crashes together

ASSUME BoundsAssumption ==
    /\ {Limit, AckLimit} \subseteq Nat \ {0} /\ MaxEvents \in Nat
    /\ Senders \cap Answers = {} /\ Feed # Phone /\ Cut \in [Ids -> Ids]

Channels == {Route[i] : i \in DOMAIN Route} \cup {Voice[i] : i \in DOMAIN Voice}
Outcomes == {"sent", "error", "dropped"}
ASSUME RoutesAssumption == Route \in Seq(Channels) /\ Voice \in Seq(Channels)
ASSUME EndsAssumption == Ends \in [Channels -> SUBSET Outcomes] /\ Tested \subseteq Channels
Counters == Outcomes \cup {"ai"}
Gens == 0..MaxEvents     \* coordinators, one after the other
Early == "early"         \* the reason of drops before routing
Character == "character" \* who asks the AI

VARIABLES
    mem,     \* RuntimeState of each coordinator: see NoState
    disk,    \* the stored one
    pending, \* what the store of each is to write, as a sequence of one or none
    gen,     \* the coordinator in charge
    phase,   \* of its life: "up", "closing", "saving" its final state, or "out"
    late,    \* whether a replaced coordinator wrote the file last
    sends,   \* requests, deliveries and their recordings in progress
    asks,    \* answers in progress
    shows,   \* the notifications that phones show
    day,     \* today
    events   \* counter for the bound
life == <<gen, phase, day>>
file == <<disk, pending, late>>
vars == <<mem, file, life, sends, asks, shows, events>>

Zero == [c \in Channels \cup {Early, Character} |-> 0]
NoState == [acked |-> <<>>, last |-> <<>>, recent |-> <<>>, feed |-> <<>>, day |-> 0, notifications |-> 0,
            totals |-> [o \in Counters |-> 0], counts |-> [o \in Counters |-> Zero],
            happened |-> [day |-> 0, counts |-> [o \in Counters |-> Zero]]]
Nobody == [pc |-> "idle"]

Init ==
    /\ mem = [g \in Gens |-> NoState] /\ disk = NoState /\ pending = [g \in Gens |-> <<>>]
    /\ gen = 0 /\ phase = "up" /\ late = FALSE
    /\ sends = [s \in Senders |-> Nobody] /\ asks = [a \in Answers |-> Nobody]
    /\ shows = {} /\ day = 0 /\ events = 0

\* One more of what is bounded.
Event == events < MaxEvents /\ events' = events + 1

Taken(seq, n) == SubSeq(seq, 1, IF Len(seq) < n THEN Len(seq) ELSE n)
Members(seq) == {seq[i] : i \in DOMAIN seq}

\* The memory of a replaced coordinator is kept for what will yet change or save it.
Kept(m) ==
    [g \in Gens |->
        IF \/ g = gen'
           \/ \E s \in Senders : sends'[s].pc \in {"routing", "checking", "save"} /\ sends'[s].gen = g
           \/ \E a \in Answers : asks'[a].pc = "feedback" /\ asks'[a].gen = g
        THEN m[g] ELSE NoState]

-----------------------------------------------------------------------------
(* Deliveries.                                                             *)

\* Mistaken variant: what is counted by reason is kept.
ResetSome(m) ==
    IF m.day = day THEN m
    ELSE [m EXCEPT !.day = day, !.notifications = 0, !.totals = NoState.totals,
                   !.counts = [NoState.counts EXCEPT !["dropped"] = m.counts["dropped"]]]

\* _reset_daily_counters_if_needed
Reset(m) ==
    IF m.day = day THEN m
    ELSE [m EXCEPT !.day = day, !.notifications = 0, !.totals = NoState.totals, !.counts = NoState.counts]

\* What really happened on the last day on which something did, for the properties.
Happened(m, channel, outcome) ==
    LET before == IF m.happened.day = day THEN m.happened.counts ELSE NoState.counts
    IN  [day |-> day, counts |-> [before EXCEPT ![outcome][channel] = @ + 1]]

\* _record_result_metrics of one result; what is dropped is counted by its reason,
\* here the channel's.
Counted(m, channel, outcome) ==
    [m EXCEPT !.totals[outcome] = @ + 1, !.counts[outcome][channel] = @ + 1,
              !.happened = Happened(m, channel, outcome)]

CountedAll(m, results) ==
    LET step[i \in 0..Len(results)] ==
            IF i = 0 THEN m ELSE Counted(step[i - 1], results[i].channel, results[i].outcome)
    IN  step[Len(results)]

\* Who is alive: the queue delivers what it has until the final save.
Serving == phase # "out"
Delivering == phase \in {"up", "closing"}

\* A delivery starts, whether the AI words it or not.
Starts(s, n, route, ai) ==
    /\ Delivering /\ sends[s].pc = "idle" /\ Event
    /\ sends' = [sends EXCEPT ![s] = [pc |-> "routing", gen |-> gen, id |-> n, route |-> route, ai |-> ai, results |-> <<>>]]

\* Of one notification; its admission is another module's.
Start(s, n) ==
    /\ \E ai \in BOOLEAN : Starts(s, n, Route, ai)
    /\ UNCHANGED <<mem, file, life, asks, shows>>

\* _async_build_summary_context, of several: what it asks the AI counts at once.
Summarise(s, n) ==
    /\ Starts(s, n, Route, FALSE)
    /\ mem' = [mem EXCEPT ![gen] = Counted(Reset(@), Character, "ai")]
    /\ UNCHANGED <<file, life, asks, shows>>

\* Herald's own notifications have new identifiers.
New(n) ==
    /\ n \notin shows \cup Members(mem[gen].acked)
    /\ \A k \in Members(mem[gen].recent) \cup Members(mem[gen].feed) : k.id # n

\* The button that tests a channel or a level.
Test(s, n) ==
    /\ New(n)
    /\ \E route \in {Route} \cup {<<c>> : c \in Tested} : Starts(s, n, route, FALSE)
    /\ UNCHANGED <<mem, file, life, asks, shows>>

\* _async_announce_self_action, of a control that is changed.
Announce(s, n) ==
    /\ New(n) /\ Voice # <<>> /\ Starts(s, n, Voice, FALSE)
    /\ UNCHANGED <<mem, file, life, asks, shows>>

\* _record_dashboard_delivery: an item of the feed.
FeedItem(m, n) == [id |-> n, acked |-> n \in Members(m.acked), cleared |-> FALSE, results |-> <<>>]

\* The next channel: the phone shows it, the feed has it, or it is not sent.
Send(s) ==
    /\ sends[s].pc = "routing" /\ Len(sends[s].results) < Len(sends[s].route)
    /\ LET c == sends[s].route[Len(sends[s].results) + 1]
           n == sends[s].id
           g == sends[s].gen
       IN  \E outcome \in Ends[c] :
              /\ sends' = [sends EXCEPT ![s].results = Append(@, [channel |-> c, outcome |-> outcome])]
              /\ shows' = IF c = Phone /\ outcome = "sent" THEN shows \cup {n} ELSE shows
              /\ mem' = IF c = Feed /\ outcome = "sent"
                        THEN [mem EXCEPT ![g].feed = <<FeedItem(mem[g], n)>> \o Taken(@, Limit - 1)]
                        ELSE mem
    /\ UNCHANGED <<file, life, asks, events>>

\* Mistaken variant: nobody can have acknowledged what is recorded only now.
ItemUnseen(m, n, results) == [id |-> n, acked |-> FALSE, cleared |-> FALSE, results |-> results]

\* The record of a delivery.
Item(m, n, results) == [id |-> n, acked |-> n \in Members(m.acked), cleared |-> FALSE, results |-> results]

\* _record_delivery, at once after the last channel; a task saves it.
Recorded(before, send) ==
    LET reset == Reset(before)
        m == CountedAll(IF send.ai THEN Counted(reset, Character, "ai") ELSE reset, send.results)
        item == Item(before, send.id, send.results)
    IN  [m EXCEPT !.notifications = @ + 1, !.last = <<item>>, !.recent = Taken(<<item>> \o @, Limit)]
Record(s) ==
    /\ sends[s].pc = "routing" /\ Len(sends[s].results) = Len(sends[s].route)
    /\ mem' = [mem EXCEPT ![sends[s].gen] = Recorded(@, sends[s])]
    /\ sends' = [sends EXCEPT ![s] = [pc |-> "save", gen |-> sends[s].gen]]
    /\ UNCHANGED <<file, life, asks, shows, events>>

\* A request is being checked before it is queued.
Arrive(s) ==
    /\ Serving /\ sends[s].pc = "idle" /\ Event
    /\ sends' = [sends EXCEPT ![s] = [pc |-> "checking", gen |-> gen]]
    /\ UNCHANGED <<mem, file, life, asks, shows>>

\* _record_drop_metric: it is dropped, and the state saved; or it is queued, and
\* saved as well unless the queue is closed.
Checked(s) ==
    /\ sends[s].pc = "checking"
    /\ UNCHANGED <<file, life, asks, shows, events>>
    /\ LET g == sends[s].gen
       IN  \/ /\ mem' = [mem EXCEPT ![g] = Counted(Reset(@), Early, "dropped")]
              /\ sends' = [sends EXCEPT ![s] = [pc |-> "save", gen |-> g]]
           \/ /\ sends' = [sends EXCEPT ![s] = IF g = gen /\ phase = "up" THEN [pc |-> "save", gen |-> g] ELSE Nobody]
              /\ mem' = Kept(mem)

-----------------------------------------------------------------------------
(* Answers.                                                                *)

\* _async_persist_and_publish: the store is given the state as it now is.
Saves(g, m) == pending' = [pending EXCEPT ![g] = <<m>>] /\ UNCHANGED <<disk, late>>

Marked(items, n, field) == [i \in DOMAIN items |-> IF items[i].id = n THEN [items[i] EXCEPT ![field] = TRUE] ELSE items[i]]
MarkedAll(m, n, field) ==
    [m EXCEPT !.last = Marked(@, n, field), !.recent = Marked(@, n, field), !.feed = Marked(@, n, field)]

\* async_acknowledge up to its first wait: the newest acknowledgements are kept,
\* one of each notification.
Acked(m, n) == [m EXCEPT !.acked = Taken(<<n>> \o RemoveFirst(@, n), AckLimit)]

\* What comes back after the final state was taken misses it.
AckKind == IF phase = "saving" THEN "missed" ELSE "ack"

Acknowledge(a, n) ==
    /\ asks[a].pc = "idle"
    /\ mem' = [mem EXCEPT ![gen] = MarkedAll(Acked(@, n), n, "acked")]
    /\ asks' = [asks EXCEPT ![a] = [pc |-> "feedback", gen |-> gen, id |-> n, kind |-> AckKind]]
    /\ UNCHANGED <<file, life, sends, shows, events>>

\* async_snooze_flow: what it does to the flow is modelled in Admission.
Snooze(a, n) ==
    /\ asks[a].pc = "idle"
    /\ asks' = [asks EXCEPT ![a] = [pc |-> "feedback", gen |-> gen, id |-> n, kind |-> "snooze"]]
    /\ UNCHANGED <<mem, file, life, sends, shows, events>>

\* The tokens on the buttons of a notification, as parse_action_token reads them:
\* an identifier ends at a separator, and in a snooze that moves nothing else.
Buttons(n) == {[kind |-> "ack", id |-> Cut[n]], [kind |-> "snooze", id |-> Cut[n]]}

\* _async_apply_action_payload
Applied(a, token) ==
    IF token.kind = "ack" THEN Acknowledge(a, token.id) ELSE Snooze(a, token.id)

\* A button is pressed, on a phone or in a chat; the shutdown begins with the
\* listeners.
Press(a, n) == phase = "up" /\ n \in shows /\ \E token \in Buttons(n) : Applied(a, token)

\* A service call, of what the dashboard lists; the services stay until the end.
Call(a, n) ==
    /\ Serving
    /\ n \in {k.id : k \in Members(mem[gen].recent) \cup Members(mem[gen].feed)}
    /\ \E kind \in {"ack", "snooze"} : Applied(a, [kind |-> kind, id |-> n])

\* _mark_notification_cleared: a phone says that it shows it no more.
Dismiss(a, n) ==
    /\ phase = "up" /\ asks[a].pc = "idle" /\ n \in shows
    /\ shows' = shows \ {n}
    /\ mem' = [mem EXCEPT ![gen] = MarkedAll(@, n, "cleared")] /\ Saves(gen, mem'[gen])
    /\ asks' = [asks EXCEPT ![a] = [pc |-> "write", gen |-> gen, id |-> n, kind |-> "clear"]]
    /\ UNCHANGED <<life, sends, events>>

\* _find_notification: the newest record of it; the feed's has no results.
Found(m, n) ==
    LET all == m.last \o m.recent \o m.feed
        mine == SelectSeq(all, LAMBDA k : k.id = n)
    IN  IF mine = <<>> THEN <<>> ELSE mine[1].results

\* Phones it was sent to are told to clear it; when that fails the answer goes on.
Cleared(ask) ==
    LET sent == [channel |-> Phone, outcome |-> "sent"] \in Members(Found(mem[ask.gen], ask.id))
    IN  shows' \in {shows, IF sent THEN shows \ {ask.id} ELSE shows}

\* Mistaken variant: the answer is saved with the next notification.
ClearPhonesUnsaved(a) ==
    /\ asks[a].pc = "feedback"
    /\ Cleared(asks[a])
    /\ asks' = [asks EXCEPT ![a].pc = "write"]
    /\ UNCHANGED <<mem, file, life, sends, events>>

\* _async_emit_action_feedback; then the answer is saved.
ClearPhones(a) ==
    /\ asks[a].pc = "feedback"
    /\ Cleared(asks[a])
    /\ Saves(asks[a].gen, mem[asks[a].gen])
    /\ asks' = [asks EXCEPT ![a].pc = "write"]
    /\ UNCHANGED <<life, sends, events>>
    /\ mem' = Kept(mem)

-----------------------------------------------------------------------------
(* The file.                                                               *)

\* The task of a recorded delivery, or a request, saves it.
SendSaves(s) ==
    /\ sends[s].pc = "save" /\ Saves(sends[s].gen, mem[sends[s].gen])
    /\ sends' = [sends EXCEPT ![s].pc = "write"]
    /\ UNCHANGED <<life, asks, shows, events>>
    /\ mem' = Kept(mem)

\* Of a call that has returned only an acknowledgement is of interest.
Other == [pc |-> "done", kind |-> "other"]
Done(ask) == IF ask.kind = "ack" THEN [pc |-> "done", id |-> ask.id, kind |-> "ack"] ELSE Other

\* One after the other those of a coordinator write what its store was given
\* last, if it is not written.
Written(g) ==
    /\ pending' = [pending EXCEPT ![g] = <<>>]
    /\ IF pending[g] = <<>> THEN UNCHANGED <<disk, late>> ELSE disk' = pending[g][1] /\ late' = (g # gen)
AskWritten(a) ==
    /\ asks[a].pc = "write" /\ Written(asks[a].gen)
    /\ asks' = [asks EXCEPT ![a] = IF @.kind = "clear" THEN Done(@) ELSE [@ EXCEPT !.pc = "said"]]
    /\ UNCHANGED <<mem, life, sends, shows, events>>
\* What was asked is spoken, when somebody is home to hear it and the queue takes it.
Answered(a) ==
    /\ asks[a].pc = "said"
    /\ asks' = [asks EXCEPT ![a] = Done(@)]
    /\ \/ /\ phase = "up" /\ asks[a].gen = gen
          /\ \E s \in Senders, n \in Ids : New(n) /\ Voice # <<>> /\ Starts(s, n, Voice, FALSE)
       \/ UNCHANGED <<sends, events>>
    /\ UNCHANGED <<mem, file, life, shows>>
SendWritten(s) ==
    /\ sends[s].pc = "write" /\ Written(sends[s].gen)
    /\ sends' = [sends EXCEPT ![s] = Nobody]
    /\ UNCHANGED <<mem, life, asks, shows, events>>

-----------------------------------------------------------------------------
(* Reload, crash and midnight.                                             *)

\* async_shutdown: listeners and queue are closed,
Close ==
    /\ phase = "up" /\ Event
    /\ phase' = "closing"
    /\ UNCHANGED <<mem, file, gen, day, sends, asks, shows>>

\* and when the queue has delivered what it had, the state is saved.
FinalSave ==
    /\ phase = "closing" /\ \A s \in Senders : sends[s].pc # "routing"
    /\ phase' = "saving"
    /\ Saves(gen, mem[gen])
    /\ UNCHANGED <<mem, gen, day, sends, asks, shows, events>>

\* It is written, and the coordinator gone from those the services know.
FinalWritten ==
    /\ phase = "saving"
    /\ phase' = "out"
    /\ Written(gen)
    /\ UNCHANGED <<mem, gen, day, sends, asks, shows, events>>

\* What is promised to an answer when a coordinator loads a file that a replaced
\* one wrote last: nothing any more.
Missed(ask) ==
    IF ask.pc = "done" THEN Other
    ELSE IF ask.pc \in {"feedback", "write", "said"} /\ ask.kind = "ack" THEN [ask EXCEPT !.kind = "missed"]
    ELSE ask
Promised(ask) == IF late THEN Missed(ask) ELSE ask

\* _async_setup of a new coordinator.
SetUp ==
    /\ phase = "out"
    /\ phase' = "up" /\ gen' = gen + 1 /\ late' = FALSE
    /\ asks' = [a \in Answers |-> Promised(asks[a])]
    /\ UNCHANGED <<disk, pending, day, sends, shows, events>>
    /\ mem' = [Kept(mem) EXCEPT ![gen'] = Reset(disk)]

\* Home Assistant stops at once and comes back with what is stored.
Restart ==
    /\ Event
    /\ phase' = "up" /\ late' = FALSE
    /\ mem' = [g \in Gens |-> IF g = gen THEN Reset(disk) ELSE NoState]
    /\ pending' = [g \in Gens |-> <<>>]
    /\ sends' = [s \in Senders |-> Nobody]
    /\ asks' = [a \in Answers |-> CASE asks[a].pc \in {"idle", "done"} -> Promised(asks[a])
                                [] asks[a].pc = "said" -> Promised(Done(asks[a]))
                                [] OTHER -> [pc |-> "lost"]]
    /\ UNCHANGED <<disk, gen, day, shows>>

Midnight ==
    /\ Event
    /\ day' = day + 1
    /\ UNCHANGED <<mem, file, gen, phase, sends, asks, shows>>

Next ==
    \/ \E s \in Senders, n \in Ids : Start(s, n) \/ Summarise(s, n) \/ Test(s, n) \/ Announce(s, n)
    \/ \E s \in Senders : Send(s) \/ Record(s) \/ Arrive(s) \/ Checked(s) \/ SendSaves(s) \/ SendWritten(s)
    \/ \E a \in Answers, n \in Ids : Press(a, n) \/ Call(a, n) \/ Dismiss(a, n)
    \/ \E a \in Answers : ClearPhones(a) \/ AskWritten(a) \/ Answered(a)
    \/ Close \/ FinalSave \/ FinalWritten \/ SetUp \/ Restart \/ Midnight

Spec == Init /\ [][Next]_vars

-----------------------------------------------------------------------------
\* An acknowledgement shows wherever its notification does, in the file and in the
\* memory of every coordinator: in what was listed before it, in what is recorded
\* after it, after a reload or a restart.  Once its call has returned, the
\* coordinator in charge has it, and so has the file unless a replaced coordinator
\* wrote that last; it outlives reloads and restarts, unless as many newer ones as
\* are kept have come, the call came after the final state of a reload was taken,
\* or a coordinator loaded what a replaced one wrote last.
Shown(m) ==
    \A k \in Members(m.last) \cup Members(m.recent) \cup Members(m.feed) : k.id \in Members(m.acked) => k.acked
Remembers(m, n) == n \in Members(m.acked) \/ Len(m.acked) = AckLimit
AckVisible ==
    /\ Shown(disk) /\ \A g \in Gens : Shown(mem[g])
    /\ \A a \in Answers : asks[a].pc \in {"said", "done"} /\ asks[a].kind = "ack" =>
          /\ Remembers(mem[gen], asks[a].id)
          /\ ~late => Remembers(disk, asks[a].id)

\* The counters of a day are what happened on it, in total, by channel and by
\* reason, in the file and in the memory of every coordinator, over midnights,
\* reloads and restarts that come between any two steps.
CountsAgree ==
    \A m \in {mem[g] : g \in Gens} \cup {disk} :
        LET today == IF m.happened.day = m.day THEN m.happened.counts ELSE NoState.counts
        IN  /\ m.counts = today
            /\ \A o \in Counters : m.totals[o] = FoldFunction(+, 0, today[o])
=============================================================================
