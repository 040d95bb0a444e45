--------------------------- MODULE TelegramSender ---------------------------
(***************************************************************************)
(* internal/alert/telegram/sender.go: Run turns every attack event into    *)
(* one message per authorized chat on a bounded queue; a single worker     *)
(* sends them one at a time. When the API answers 429 the worker sleeps    *)
(* and puts the message back at the end of the queue, at most maxRetries   *)
(* sends per message; any other error drops it. Run returns on a canceled  *)
(* context; the worker, which nobody waits for, stops at its next wait.    *)
(*                                                                         *)
(* The rate limiters and the length of the back-off only delay the worker. *)
(***************************************************************************)
EXTENDS Integers, Sequences, FiniteSets

CONSTANTS
  Chats,       \* the authorized chats, in the order of the configuration
  QueueCap,    \* capacity of the queue (1000)
  maxRetries,  \* 3
  MaxEvents    \* bound: events the bus hands to the sender

Chat == {Chats[i] : i \in DOMAIN Chats}

ASSUME SenderAssumption ==
  /\ Chats \in Seq(Chat)
  /\ \A i, j \in DOMAIN Chats : Chats[i] = Chats[j] => i = j
  /\ QueueCap \in Nat \ {0} /\ maxRetries \in Nat \ {0} /\ MaxEvents \in Nat

VARIABLES
  canceled,   \* the context is canceled
  run,        \* [pc, ev, todo] of Run
  next,       \* the number of the next event, in the order of the bus
  queue,      \* messages: [chat, ev, attempts]
  worker,     \* [pc, out] of the worker
  delivered,  \* history: [Chat -> event numbers, as the chat got them]
  posted,     \* history: [Chat -> [events -> calls of SendMessage]]
  dropped     \* history: {[chat, ev, why]}

vars == <<canceled, run, next, queue, worker, delivered, posted, dropped>>

Events == 1 .. MaxEvents
Message == [chat : Chat, ev : Events, attempts : 0 .. maxRetries - 1]
NoMessage == [ev |-> 0]

Reading == [pc |-> "select", ev |-> 0, todo |-> <<>>]
Waiting == [pc |-> "select", out |-> NoMessage]

Drop(m, reason) ==
  dropped' = dropped \cup {[chat |-> m.chat, ev |-> m.ev, why |-> reason]}

-----------------------------------------------------------------------------
(* Run.                                                                    *)

RunTake ==
  /\ run.pc = "select"
  /\ next <= MaxEvents
  /\ next' = next + 1
  /\ run' = [pc |-> "fan", ev |-> next, todo |-> Chats]
  /\ UNCHANGED <<canceled, queue, worker, delivered, posted, dropped>>

\* Mutant: the enqueuing ignores the capacity of the queue.
RunEnqueueUnbounded ==
  LET m == [chat |-> Head(run.todo), ev |-> run.ev, attempts |-> 0]
  IN  /\ run.pc = "fan" /\ run.todo # <<>>
      /\ queue' = Append(queue, m)
      /\ run' = [run EXCEPT !.todo = Tail(@)]
      /\ UNCHANGED <<canceled, next, worker, delivered, posted, dropped>>

\* The non-blocking send for the next chat.
RunEnqueue ==
  LET m == [chat |-> Head(run.todo), ev |-> run.ev, attempts |-> 0]
  IN  /\ run.pc = "fan" /\ run.todo # <<>>
      /\ IF Len(queue) < QueueCap
         THEN queue' = Append(queue, m) /\ dropped' = dropped
         ELSE queue' = queue /\ Drop(m, "queue full")
      /\ run' = [run EXCEPT !.todo = Tail(@)]
      /\ UNCHANGED <<canceled, next, worker, delivered, posted>>

RunFanned ==
  /\ run.pc = "fan" /\ run.todo = <<>>
  /\ run' = Reading
  /\ UNCHANGED <<canceled, next, queue, worker, delivered, posted, dropped>>

RunReturn ==
  /\ canceled
  /\ run.pc = "select"
  /\ run' = [Reading EXCEPT !.pc = "returned"]
  /\ UNCHANGED <<canceled, next, queue, worker, delivered, posted, dropped>>

-----------------------------------------------------------------------------
(* The worker.                                                             *)

\* Mutant: the newest message first.
WorkerTakeNewest ==
  /\ worker.pc = "select"
  /\ queue # <<>>
  /\ worker' = [pc |-> "send", out |-> queue[Len(queue)]]
  /\ queue' = SubSeq(queue, 1, Len(queue) - 1)
  /\ UNCHANGED <<canceled, run, next, delivered, posted, dropped>>

WorkerTake ==
  /\ worker.pc = "select"
  /\ queue # <<>>
  /\ worker' = [pc |-> "send", out |-> Head(queue)]
  /\ queue' = Tail(queue)
  /\ UNCHANGED <<canceled, run, next, delivered, posted, dropped>>

\* The limiters (before the call) or the call itself give up on a canceled
\* context: the message is lost.
SendCanceled ==
  /\ canceled
  /\ worker.pc \in {"send", "backoff"}
  /\ Drop(worker.out, "canceled")
  /\ worker' = Waiting
  /\ UNCHANGED <<canceled, run, next, queue, delivered, posted>>

\* The history of calls saturates above the maxRetries the code allows.
Posted(m) ==
  posted' = [posted EXCEPT ![m.chat][m.ev] = IF @ > maxRetries THEN @ ELSE @ + 1]

SendOK ==
  /\ worker.pc = "send"
  /\ Posted(worker.out)
  /\ delivered' = [delivered EXCEPT ![worker.out.chat] = Append(@, worker.out.ev)]
  /\ worker' = Waiting
  /\ UNCHANGED <<canceled, run, next, queue, dropped>>

\* An error other than 429 drops the message.
SendError ==
  /\ worker.pc = "send"
  /\ Posted(worker.out)
  /\ Drop(worker.out, "error")
  /\ worker' = Waiting
  /\ UNCHANGED <<canceled, run, next, queue, delivered>>

\* 429: sleep for the time the API asked for.
SendTooMany ==
  /\ worker.pc = "send"
  /\ Posted(worker.out)
  /\ worker' = [worker EXCEPT !.pc = "backoff"]
  /\ UNCHANGED <<canceled, run, next, queue, delivered, dropped>>

\* Mutant: the attempts are not counted.
RetryForever ==
  LET m == worker.out
  IN  /\ worker.pc = "backoff"
      /\ IF Len(queue) < QueueCap
         THEN queue' = Append(queue, m) /\ dropped' = dropped
         ELSE queue' = queue /\ Drop(m, "queue full")
      /\ worker' = Waiting
      /\ UNCHANGED <<canceled, run, next, delivered, posted>>

\* Mutant: the message that got the 429 is sent again although it is kept.
RetryTwice ==
  LET m == [worker.out EXCEPT !.attempts = @ + 1]
  IN  /\ worker.pc = "backoff"
      /\ IF m.attempts >= maxRetries
         THEN queue' = queue /\ Drop(m, "retries")
         ELSE IF Len(queue) + 1 < QueueCap
         THEN queue' = queue \o <<m, m>> /\ dropped' = dropped
         ELSE queue' = queue /\ Drop(m, "queue full")
      /\ worker' = Waiting
      /\ UNCHANGED <<canceled, run, next, delivered, posted>>

\* After the sleep: drop after maxRetries sends, else to the end of the queue.
Retry ==
  LET m == [worker.out EXCEPT !.attempts = @ + 1]
  IN  /\ worker.pc = "backoff"
      /\ IF m.attempts >= maxRetries
         THEN queue' = queue /\ Drop(m, "retries")
         ELSE IF Len(queue) < QueueCap
         THEN queue' = Append(queue, m) /\ dropped' = dropped
         ELSE queue' = queue /\ Drop(m, "queue full")
      /\ worker' = Waiting
      /\ UNCHANGED <<canceled, run, next, delivered, posted>>

WorkerReturn ==
  /\ canceled
  /\ worker.pc = "select"
  /\ worker' = [Waiting EXCEPT !.pc = "returned"]
  /\ UNCHANGED <<canceled, run, next, queue, delivered, posted, dropped>>

-----------------------------------------------------------------------------
Init ==
  /\ canceled = FALSE
  /\ run = Reading /\ next = 1
  /\ queue = <<>> /\ worker = Waiting
  /\ delivered = [c \in Chat |-> <<>>]
  /\ posted = [c \in Chat |-> [e \in Events |-> 0]]
  /\ dropped = {}

Cancel ==
  /\ ~canceled
  /\ canceled' = TRUE
  /\ UNCHANGED <<run, next, queue, worker, delivered, posted, dropped>>

Run == RunTake \/ RunEnqueue \/ RunFanned \/ RunReturn

Worker ==
  \/ WorkerTake \/ SendOK \/ SendError \/ SendTooMany \/ SendCanceled
  \/ Retry \/ WorkerReturn

Next == Run \/ Worker \/ Cancel

Spec == Init /\ [][Next]_vars

\* Both goroutines run, and every call of the API returns some time. What it
\* returns is up to Telegram.
FairSpec == Spec /\ WF_vars(Run) /\ WF_vars(Worker)

-----------------------------------------------------------------------------
(* Properties.                                                             *)

TypeOK ==
  /\ canceled \in BOOLEAN
  /\ run \in [pc : {"select", "fan", "returned"}, ev : 0 .. MaxEvents, todo : Seq(Chat)]
  /\ next \in 1 .. MaxEvents + 1
  /\ queue \in Seq(Message) /\ Len(queue) <= QueueCap
  /\ worker \in [pc : {"select", "send", "backoff", "returned"},
                 out : Message \cup {NoMessage}]
  /\ delivered \in [Chat -> Seq(Events)]
  /\ posted \in [Chat -> [Events -> 0 .. maxRetries + 1]]
  /\ dropped \subseteq [chat : Chat, ev : Events,
                        why : {"queue full", "canceled", "error", "retries"}]

\* Where the message of an event for a chat is, counted once for each place.
Places(c, e) ==
  LET mine(m) == m.ev = e /\ m.chat = c
  IN  (IF run.ev = e /\ \E i \in DOMAIN run.todo : run.todo[i] = c THEN 1 ELSE 0)
      + Cardinality({i \in DOMAIN queue : mine(queue[i])})
      + (IF worker.out # NoMessage /\ mine(worker.out) THEN 1 ELSE 0)
      + Cardinality({i \in DOMAIN delivered[c] : delivered[c][i] = e})
      + Cardinality({d \in dropped : d.ev = e /\ d.chat = c})

\* Every event is, for every chat, in exactly one place: still to be queued,
\* queued, with the worker, delivered or dropped for one reason. No retry
\* duplicates a message, none is forgotten, and no chat is skipped.
EachMessageOnce ==
  \A c \in Chat, e \in Events : Places(c, e) = IF e < next THEN 1 ELSE 0

\* A chat gets its messages in the order of the events, but for those that
\* were refused with 429 at least once: only a retried message arrives late.
LateOnlyIfRetried ==
  \A c \in Chat :
    \A i, j \in DOMAIN delivered[c] :
      i < j /\ delivered[c][i] > delivered[c][j] => posted[c][delivered[c][j]] > 1

\* A bounded queue of messages, each in one place and overtaken only after a
\* refusal (Run, worker and its retry).
SenderSafe == TypeOK /\ EachMessageOnce /\ LateOnlyIfRetried

\* A message is settled after finitely many sends, so one chat that keeps
\* being refused does not block the others forever; only a shutdown leaves
\* messages behind.
MessagesSettle ==
  \A c \in Chat, e \in Events :
    next > e ~> \/ canceled
                \/ \E i \in DOMAIN delivered[c] : delivered[c][i] = e
                \/ \E d \in dropped : d.chat = c /\ d.ev = e
=============================================================================
