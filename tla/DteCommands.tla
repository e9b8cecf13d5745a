----------------------------- MODULE DteCommands -----------------------------
(***************************************************************************)
(* The command protocol of the wctc4xxp transcoder card: a thread that     *)
(* holds chansem sends one command after another to the DTE processor and  *)
(* sleeps until each is answered or has timed out.  Commands and voice     *)
(* frames share one ring of transmit descriptors; what does not fit waits  *)
(* on cmd_list.  The ring is served by the deferred work and by the        *)
(* watchdog timer, which also sends again what was not answered, so that   *)
(* four threads of control meet over one transmit control block (tcb).     *)
(*                                                                         *)
(* A step is a critical section of the driver, or what lies between two.   *)
(* Time is a pair of flags: a command is past its timeout, the watchdog is *)
(* due; TimePasses lets both happen, as HZ/2 is longer than HZ/4.          *)
(*                                                                         *)
(* Bounds: MaxOps commands; one tcb for commands, since chansem admits one *)
(* holder; the frames of Frames are all the memory there is for voice      *)
(* frames and acknowledgements.  The DTE answers the commands it has got   *)
(* in their order, at any later time or never, and repeats an answer under *)
(* its old sequence number.  Not modelled: booting (the only commands that *)
(* wait for an ACK), the polling timer (an interrupt that needs no cause), *)
(* the voice frames that come back.                                        *)
(***************************************************************************)
EXTENDS Integers, Sequences, FiniteSets, SequencesExt

CONSTANTS
    Slots,       \* DRING_SIZE
    MaxRetries,  \* MAX_RETRIES
    Function,    \* the function and channel of each command, in order
    Supervisor,  \* those that go to the supervisor channel
    Frames,      \* tcbs of voice frames and acknowledgements
    Command,     \* the tcb of the commands
    None

MaxOps == Len(Function)

ASSUME DteAssumption ==
    /\ Slots \in Nat \ {0} /\ MaxRetries \in Nat
    /\ Function \in Seq(STRING) /\ Command \notin Frames
    /\ None \notin Frames \cup {Command}

VARIABLES
    desc, head, tail, hw,          \* the transmit ring; hw is the adapter's place
    cmd_list, waiting, to_retry,   \* the lists a tcb can be on
    cmd,                           \* the fields of Command
    op, allocated,                 \* the command now in Command; is it allocated?
    frames, fresh,                 \* the frames that are allocated, or yet to come
    pc, cur, old, ret,             \* where each thread is, and what it works on
    rx_list, local, last_rx_seq,   \* what was received
    work, armed, due,              \* the deferred work and the watchdog are called
    shutdown,                      \* DTE_SHUTDOWN
    inbox,                         \* commands the DTE has and may still answer
    used                           \* auxiliary: the answers that were taken

ring    == <<desc, head, tail, hw>>
lists   == <<cmd_list, waiting, to_retry>>
threads == <<pc, cur, old, ret>>
rx      == <<rx_list, local, last_rx_seq, used>>
timers  == <<armed, due>>
vars == <<ring, lists, cmd, op, allocated, frames, fresh, threads, rx, work,
          timers, shutdown, inbox>>

Threads == {"user", "writer", "work", "dog"}
Servers == {"work", "dog"}          \* those that call service_tx_ring
Tcbs    == Frames \cup {Command}
Unused  == [tcb |-> None, owned |-> FALSE]

NewCmd == [wait |-> TRUE, complete |-> FALSE, timedout |-> FALSE,
           response |-> 0, retries |-> 0, done |-> 0, late |-> FALSE]

Init ==
    /\ desc = [i \in 0..(Slots - 1) |-> Unused] /\ head = 0 /\ tail = 0 /\ hw = 0
    /\ cmd_list = <<>> /\ waiting = {} /\ to_retry = {}
    /\ cmd = NewCmd /\ op = 0 /\ allocated = FALSE /\ frames = {} /\ fresh = Frames
    /\ pc = [t \in Threads |-> "idle"] /\ cur = [t \in Threads |-> None]
    /\ old = [t \in Threads |-> 0] /\ ret = [t \in Threads |-> "idle"]
    /\ rx_list = <<>> /\ local = <<>>
    /\ last_rx_seq = -1
    /\ work = FALSE /\ armed = FALSE /\ due = FALSE
    /\ shutdown = FALSE /\ inbox = <<>> /\ used = {}

Go(t, where) == pc' = [pc EXCEPT ![t] = where]

(***************************************************************************)
(* wctc4xxp_transmit_cmd: onto the waiting list, onto the ring, and onto   *)
(* cmd_list if the ring is full.  Then the thread goes on at ret.          *)
(***************************************************************************)
Transmit(t, c, back) ==
    /\ pc' = [pc EXCEPT ![t] = IF c = Command THEN "enlist" ELSE "submit"]
    /\ cur' = [cur EXCEPT ![t] = c]
    /\ ret' = [ret EXCEPT ![t] = back]
    /\ UNCHANGED old

Transmitted(t) ==
    /\ pc' = [pc EXCEPT ![t] = ret[t]]
    /\ cur' = [cur EXCEPT ![t] = None]
    /\ ret' = [ret EXCEPT ![t] = "idle"]
    /\ UNCHANGED old

Enlist(t) ==
    /\ pc[t] = "enlist"
    /\ IF cmd.wait
       THEN /\ waiting' = waiting \cup {Command}
            /\ cmd' = [cmd EXCEPT !.late = FALSE]
            /\ armed' = TRUE /\ due' = FALSE
       ELSE UNCHANGED <<waiting, cmd, timers>>
    /\ Go(t, "submit")
    /\ UNCHANGED <<ring, cmd_list, to_retry, op, allocated, frames, fresh, cur, old, ret,
                   rx, work, shutdown, inbox>>

Submit(t) ==
    /\ pc[t] = "submit"
    /\ IF desc[tail] = Unused
       THEN /\ desc' = [desc EXCEPT ![tail] = [tcb |-> cur[t], owned |-> TRUE]]
            /\ tail' = (tail + 1) % Slots
            /\ Transmitted(t)
       ELSE Go(t, "requeue") /\ UNCHANGED <<desc, tail, cur, old, ret>>
    /\ UNCHANGED <<head, hw, lists, cmd, op, allocated, frames, fresh, rx, work,
                   timers, shutdown, inbox>>

Requeue(t) ==
    /\ pc[t] = "requeue"
    /\ waiting' = waiting \ {cur[t]}
    /\ cmd_list' = Append(cmd_list, cur[t])
    /\ Transmitted(t)
    /\ UNCHANGED <<ring, to_retry, cmd, op, allocated, frames, fresh, rx, work,
                   timers, shutdown, inbox>>

(***************************************************************************)
(* The holder of chansem (wctc4xxp_transmit_cmd_and_wait).  An operation   *)
(* allocates a tcb and sends all its commands through it; retries is set   *)
(* to 0 by the allocation only.                                            *)
(***************************************************************************)
SendCommand ==
    /\ pc["user"] = "idle" /\ op < MaxOps
    /\ op' = op + 1
    /\ cmd' = IF allocated THEN [NewCmd EXCEPT !.retries = cmd.retries, !.done = cmd.done]
                           ELSE NewCmd
    /\ allocated' = TRUE
    /\ Transmit("user", Command, "sleep")
    /\ UNCHANGED <<ring, lists, frames, fresh, rx, work, timers, shutdown, inbox>>

Return ==
    /\ pc["user"] = "sleep" /\ cmd.done > 0
    /\ cmd' = IF cmd.timedout THEN NewCmd ELSE [cmd EXCEPT !.done = @ - 1]
    /\ allocated' = ~cmd.timedout
    /\ Go("user", "idle")
    /\ UNCHANGED <<ring, lists, op, frames, fresh, cur, old, ret, rx, work, timers,
                   shutdown, inbox>>

EndOperation ==
    /\ pc["user"] = "idle" /\ allocated
    /\ allocated' = FALSE /\ cmd' = NewCmd
    /\ UNCHANGED <<ring, lists, op, frames, fresh, threads, rx, work, timers,
                   shutdown, inbox>>

\* wctc4xxp_write: a voice frame, of which nobody waits for the end.
Write(f) ==
    /\ pc["writer"] = "idle" /\ ~shutdown /\ f \in fresh
    /\ frames' = frames \cup {f} /\ fresh' = fresh \ {f}
    /\ Transmit("writer", f, "idle")
    /\ UNCHANGED <<ring, lists, cmd, op, allocated, rx, work, timers,
                   shutdown, inbox>>

(***************************************************************************)
(* service_tx_ring, by the deferred work and by the watchdog.  retrieve    *)
(* reads the head of the ring before it takes the lock.                    *)
(***************************************************************************)
AfterTx(t) == IF t = "work" THEN "splice" ELSE "scan"

ReadHead(t) ==
    /\ pc[t] = "head"
    /\ old' = [old EXCEPT ![t] = head]
    /\ Go(t, "retrieve")
    /\ UNCHANGED <<ring, lists, cmd, op, allocated, frames, fresh, cur, ret, rx, work,
                   timers, shutdown, inbox>>

Retrieve(t) ==
    /\ pc[t] = "retrieve"
    /\ LET d == desc[old[t]] IN
       IF d # Unused /\ ~d.owned
       THEN /\ desc' = [desc EXCEPT ![old[t]] = Unused]
            /\ head' = (old[t] + 1) % Slots
            /\ cur' = [cur EXCEPT ![t] = d.tcb]
            /\ Go(t, "complete")
       ELSE Go(t, AfterTx(t)) /\ UNCHANGED <<desc, head, cur>>
    /\ old' = [old EXCEPT ![t] = 0]
    /\ UNCHANGED <<tail, hw, lists, cmd, op, allocated, frames, fresh, ret, rx, work,
                   timers, shutdown, inbox>>

EndsWhenSent_Always == TRUE              \* mutant: the answer is not waited for
EndsWhenSent == ~cmd.wait

Complete(t) ==
    /\ pc[t] = "complete"
    /\ IF cur[t] = Command
       THEN /\ cmd' = [cmd EXCEPT !.complete = TRUE,
                                  !.done = IF EndsWhenSent THEN @ + 1 ELSE @]
            /\ UNCHANGED frames
       ELSE frames' = frames \ {cur[t]} /\ UNCHANGED cmd
    /\ cur' = [cur EXCEPT ![t] = None]
    /\ Go(t, "pull")
    /\ UNCHANGED <<ring, lists, op, allocated, fresh, old, ret, rx, work, timers,
                   shutdown, inbox>>

PullQueued(t) ==
    /\ pc[t] = "pull"
    /\ IF cmd_list = <<>>
       THEN Go(t, "head") /\ UNCHANGED <<cmd_list, cur, old, ret>>
       ELSE Transmit(t, Head(cmd_list), "head") /\ cmd_list' = Tail(cmd_list)
    /\ UNCHANGED <<ring, waiting, to_retry, cmd, op, allocated, frames, fresh, rx, work,
                   timers, shutdown, inbox>>

(***************************************************************************)
(* service_rx_ring, by the deferred work.                                  *)
(***************************************************************************)
StartWork ==
    /\ work /\ pc["work"] = "idle"
    /\ work' = FALSE
    /\ Go("work", "head")
    /\ UNCHANGED <<ring, lists, cmd, op, allocated, frames, fresh, cur, old, ret, rx,
                   timers, shutdown, inbox>>

Splice ==
    /\ pc["work"] = "splice"
    /\ local' = rx_list /\ rx_list' = <<>>
    /\ Go("work", "receive")
    /\ UNCHANGED <<ring, lists, cmd, op, allocated, frames, fresh, cur, old, ret,
                   last_rx_seq, used, work, timers, shutdown, inbox>>

\* wctc4xxp_send_ack, unless the answer wants no ACK or there is no memory.
Receive ==
    /\ pc["work"] = "receive"
    /\ \/ local = <<>> /\ Go("work", "idle") /\ UNCHANGED <<cur, old, ret, frames, fresh>>
       \/ /\ local # <<>>
          /\ Go("work", "match") /\ UNCHANGED <<cur, old, ret, frames, fresh>>
       \/ /\ local # <<>>
          /\ \E f \in fresh :
                /\ frames' = frames \cup {f} /\ fresh' = fresh \ {f}
                /\ Transmit("work", f, "match")
    /\ UNCHANGED <<ring, lists, cmd, op, allocated, rx, work, timers,
                   shutdown, inbox>>

Duplicate_Never(n) == FALSE         \* mutant: every answer is taken for a new one
Duplicate(n) == Function[n] \in Supervisor /\ n = last_rx_seq

EndsWhenAnswered_Always == TRUE     \* mutant: although it is still on the ring
EndsWhenAnswered == cmd.complete

\* do_rx_response_packet: answers are matched by function and channel.
MatchResponse ==
    /\ pc["work"] = "match"
    /\ LET n == Head(local) IN
       /\ last_rx_seq' = IF Function[n] \in Supervisor THEN n ELSE last_rx_seq
       /\ IF ~Duplicate(n) /\ Command \in waiting /\ Function[op] = Function[n]
          THEN /\ waiting' = waiting \ {Command} /\ used' = used \cup {n}
               /\ cmd' = [cmd EXCEPT !.wait = FALSE, !.response = n,
                                     !.done = IF EndsWhenAnswered THEN @ + 1 ELSE @]
          ELSE UNCHANGED <<waiting, cmd, used>>
    /\ local' = Tail(local)
    /\ Go("work", "receive")
    /\ UNCHANGED <<ring, cmd_list, to_retry, op, allocated, frames, fresh, cur, old, ret,
                   rx_list, work, timers, shutdown, inbox>>

(***************************************************************************)
(* The watchdog timer.                                                     *)
(***************************************************************************)
FireWatchdog ==
    /\ armed /\ due /\ pc["dog"] = "idle"
    /\ armed' = FALSE /\ due' = FALSE
    /\ Go("dog", "head")
    /\ UNCHANGED <<ring, lists, cmd, op, allocated, frames, fresh, cur, old, ret, rx,
                   work, shutdown, inbox>>

Expired == Command \in waiting /\ cmd.late
Tired   == cmd.retries >= MaxRetries

Sent_Assumed == TRUE                \* mutant: sent again while still on the ring
Sent == cmd.complete

Rearm_Not == UNCHANGED timers       \* mutant: the watchdog does not run again
Rearm == armed' = TRUE /\ due' = FALSE

NothingExpired ==
    /\ ~Expired
    /\ Go("dog", "idle") /\ UNCHANGED <<lists, cmd, timers, shutdown>>

Halt ==
    /\ Expired /\ Tired /\ ~Sent
    /\ cmd' = [cmd EXCEPT !.retries = @ + 1]
    /\ shutdown' = TRUE
    /\ Go("dog", "idle") /\ UNCHANGED <<lists, timers>>

GiveUp ==
    /\ Expired /\ Tired /\ Sent
    /\ cmd' = [cmd EXCEPT !.retries = @ + 1, !.timedout = TRUE, !.done = @ + 1]
    /\ waiting' = waiting \ {Command}
    /\ Go("dog", "idle") /\ UNCHANGED <<cmd_list, to_retry, timers, shutdown>>

TakeForRetry ==
    /\ Expired /\ ~Tired /\ Sent
    /\ cmd' = [cmd EXCEPT !.retries = @ + 1, !.complete = FALSE]
    /\ waiting' = waiting \ {Command} /\ to_retry' = {Command}
    /\ Go("dog", "resend") /\ UNCHANGED <<cmd_list, timers, shutdown>>

StillOnRing ==
    /\ Expired /\ ~Tired /\ ~Sent
    /\ cmd' = [cmd EXCEPT !.retries = @ + 1, !.late = FALSE]
    /\ Rearm
    /\ Go("dog", "idle") /\ UNCHANGED <<lists, shutdown>>

Scan ==
    /\ pc["dog"] = "scan"
    /\ NothingExpired \/ Halt \/ GiveUp \/ TakeForRetry \/ StillOnRing
    /\ UNCHANGED <<ring, op, allocated, frames, fresh, cur, old, ret, rx, work, inbox>>

Resend ==
    /\ pc["dog"] = "resend"
    /\ to_retry' = {}
    /\ Transmit("dog", Command, "idle")
    /\ UNCHANGED <<ring, cmd_list, waiting, cmd, op, allocated, frames, fresh, rx, work,
                   timers, shutdown, inbox>>

(***************************************************************************)
(* The adapter and the DTE, until they are stopped; the interrupt; time.   *)
(***************************************************************************)
Send ==
    /\ ~shutdown /\ desc[hw].owned
    /\ desc' = [desc EXCEPT ![hw].owned = FALSE]
    /\ hw' = (hw + 1) % Slots
    /\ work' = TRUE
    /\ \/ desc[hw].tcb = Command /\ inbox' = Append(inbox, op)
       \/ UNCHANGED inbox                       \* a frame, or lost
    /\ UNCHANGED <<head, tail, lists, cmd, op, allocated, frames, fresh, threads, rx,
                   timers, shutdown>>

\* The interrupt takes an answer off the receive ring (handle_receive_ring).  It
\* is lost if the ring has no buffer left, as every buffer for which there was no
\* new memory leaves the ring for good.
Answer ==
    /\ ~shutdown /\ inbox # <<>>
    /\ inbox' = Tail(inbox)
    /\ \/ rx_list' = Append(rx_list, Head(inbox)) /\ work' = TRUE
       \/ UNCHANGED <<rx_list, work>>
    /\ UNCHANGED <<ring, lists, cmd, op, allocated, frames, fresh, threads, local,
                   last_rx_seq, used, timers, shutdown>>

\* Time is long against a run of the watchdog, which nothing preempts.
TimePasses ==
    /\ pc["dog"] = "idle"
    /\ (Command \in waiting /\ ~cmd.late) \/ (armed /\ ~due)
    /\ cmd' = [cmd EXCEPT !.late = @ \/ Command \in waiting]
    /\ due' = armed
    /\ UNCHANGED <<ring, lists, op, allocated, frames, fresh, threads, rx, work, armed,
                   shutdown, inbox>>

Sending(t) == Enlist(t) \/ Submit(t) \/ Requeue(t)
ServeTx(t) == ReadHead(t) \/ Retrieve(t) \/ Complete(t) \/ PullQueued(t)

User     == Sending("user") \/ Return
Writer   == Sending("writer")
Deferred == StartWork \/ ServeTx("work") \/ Sending("work")
            \/ Splice \/ Receive \/ MatchResponse
Watchdog == FireWatchdog \/ ServeTx("dog") \/ Sending("dog") \/ Scan \/ Resend

Next ==
    \/ SendCommand \/ EndOperation \/ User
    \/ (\E f \in Frames : Write(f)) \/ Writer
    \/ Deferred \/ Watchdog \/ TimePasses
    \/ Send \/ Answer

Spec == Init /\ [][Next]_vars

\* Every thread goes on with what it has begun, timers fire, and the adapter
\* sends what it is given.  That the DTE answers, or that anybody sends
\* anything more, is not assumed.
Fairness ==
    /\ WF_vars(User) /\ WF_vars(Writer) /\ WF_vars(Deferred) /\ WF_vars(Watchdog)
    /\ WF_vars(TimePasses) /\ WF_vars(Send)

FairSpec == Spec /\ Fairness
-----------------------------------------------------------------------------
\* Every variable has its type; the completion of a command is never done twice.
DteTypeOK ==
    /\ desc \in [0..(Slots - 1) -> [tcb : Tcbs \cup {None}, owned : BOOLEAN]]
    /\ {head, tail, hw} \subseteq 0..(Slots - 1)
    /\ cmd_list \in Seq(Tcbs)
    /\ waiting \subseteq {Command} /\ to_retry \subseteq {Command}
    /\ cmd \in [wait : BOOLEAN, complete : BOOLEAN, timedout : BOOLEAN,
                response : 0..MaxOps, retries : Nat,
                done : 0..1, late : BOOLEAN]
    /\ op \in 0..MaxOps /\ allocated \in BOOLEAN /\ frames \subseteq Frames
    /\ cur \in [Threads -> Tcbs \cup {None}] /\ old \in [Threads -> 0..(Slots - 1)]
    /\ last_rx_seq \in {-1} \cup 1..MaxOps /\ inbox \in Seq(1..MaxOps)

\* How many times the driver has hold of a tcb.
Places(c) ==
    Cardinality({i \in DOMAIN desc : desc[i].tcb = c})
    + Cardinality({i \in DOMAIN cmd_list : cmd_list[i] = c})
    + Cardinality({t \in Threads : cur[t] = c})
    + (IF c \in to_retry THEN 1 ELSE 0)

\* Until its sender is told, a command is in one place, or it has been sent and
\* waits for its answer; a frame that is allocated is in one place.  Nothing is
\* lost, nothing is in two places, through EBUSY, retries and late answers.
NothingLost ==
    /\ pc["user"] # "idle" /\ cmd.done = 0 =>
         Places(Command) = IF Command \in waiting /\ cmd.complete THEN 0 ELSE 1
    /\ \A f \in Frames : Places(f) = IF f \in frames THEN 1 ELSE 0

\* When a sender is told that its command is over, the command was answered or
\* has timed out, and no ring, list or thread has hold of the tcb any more: the
\* sender uses it for the next command, or frees it.
FinishedIsReleased ==
    cmd.done > 0 \/ (pc["user"] = "idle" /\ allocated) =>
        /\ cmd.response # 0 \/ cmd.timedout
        /\ Places(Command) = 0 /\ Command \notin waiting

\* The answer to a command of the supervisor that was sent again may come twice; it
\* is never taken for the answer to the next command of the same function.
AnswersTakenOnce ==
    [][cmd'.response \notin {0, cmd.response} /\ Function[cmd'.response] \in Supervisor
         => cmd'.response \notin used]_vars

\* A command on the waiting list is answered, times out, or goes to cmd_list:
\* the watchdog always runs again while one is there.
WaitingEnds ==
    Command \in waiting ~> \/ cmd.done > 0 \/ shutdown
                           \/ Command \in ToSet(cmd_list)

\* Whoever sends a command gets an end of it.
SenderReturns == pc["user"] = "sleep" ~> pc["user"] # "sleep" \/ shutdown
=============================================================================
