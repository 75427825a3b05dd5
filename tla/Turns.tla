------------------------------- MODULE Turns -------------------------------
(***************************************************************************)
(* Notes on their way to a running model: Inbox and Turn.  A note is put   *)
(* by any thread at any moment and rides out on the next tool result.      *)
(* Tool calls of one run execute on threads of their own, so deliveries    *)
(* overlap; each call of the inbox is atomic under its lock, a delivery is *)
(* several of them.  The end of the turn settles what was delivered, or    *)
(* puts it back when the run could not be stored.  Nothing makes the end,  *)
(* or a retry, wait for a delivery, and nothing stops a delivery of a turn *)
(* that has ended.                                                         *)
(*                                                                         *)
(* A note is its id, and ids are minted in arrival order.                  *)
(***************************************************************************)
EXTENDS Integers, SequencesExt

CONSTANTS
    Calls,         \* the threads a run's tool results come from
    Sources,       \* how many sources the turn was given
    MaxTurns,      \* bound: turns begun
    MaxDeliveries, \* bound: deliveries begun
    MaxNotes       \* bound: notes minted

ASSUME TurnsAssumption ==
    /\ Sources \in Nat
    /\ MaxTurns \in Nat
    /\ MaxDeliveries \in Nat
    /\ MaxNotes \in Nat

VARIABLES
    pending,    \* Inbox._pending
    delivered,  \* Inbox._delivered
    minted,     \* Inbox._minted
    turn,       \* how many turns have begun
    phase,      \* the current turn: none, open, ending or settling
    begun,      \* how many deliveries have begun
    call,       \* the delivery each thread is in
    read,       \* notes on results the model has read in the current attempt
    kept,       \* notes the model read in an attempt its turn's end kept
    settled,    \* notes settle() has forgotten
    withdrawn,  \* notes withdraw() has dropped
    disturbed   \* notes whose delivery was not left alone: see below

(* A note is disturbed                                                     *)
(*   - when a retry or an end overtakes the delivery that has it, or that  *)
(*     takes it afterwards, so that no model reads the result;             *)
(*   - when a source that raises takes it for one that it minted, while    *)
(*     another delivery put it there.                                      *)
vars == <<pending, delivered, minted, turn, phase, begun, call,
          read, kept, settled, withdrawn, disturbed>>
inbox == <<pending, delivered, minted>>
past == <<read, kept, settled, withdrawn>>
history == <<past, disturbed>>

Notes == 1..MaxNotes

Resting == [pc |-> "idle", notes |-> <<>>, source |-> 0, before |-> {},
            mine |-> <<>>, stray |-> <<>>, unread |-> FALSE]

UnderWay(c) == call[c].pc # "idle"

\* The notes a delivery has in its hands: to be attached, minted by the
\* source it is asking, or minted by sources that raised.
CarriedBy(d) == ToSet(d.notes) \cup ToSet(d.mine) \cup ToSet(d.stray)

Carried(c) == CarriedBy(call[c])

\* The notes of s that are not among these, in their order.
Without(s, notes) ==
    LET rest[i \in 0..Len(s)] == IF i = 0 THEN <<>>
                                 ELSE IF s[i] \in notes THEN rest[i - 1]
                                 ELSE Append(rest[i - 1], s[i])
    IN  rest[Len(s)]

-----------------------------------------------------------------------------
(* The inbox *)

Put ==
    /\ minted < MaxNotes
    /\ minted' = minted + 1
    /\ pending' = Append(pending, minted')
    /\ UNCHANGED <<delivered, turn, phase, begun, call, history>>

\* withdraw(): the first pending note with this id.
Withdraw(n) ==
    /\ \E i \in DOMAIN pending :
          /\ pending[i] = n /\ \A j \in 1..i - 1 : pending[j] # n
          /\ pending' = RemoveAt(pending, i)
    /\ withdrawn' = withdrawn \cup {n}
    /\ UNCHANGED <<delivered, minted, turn, phase, begun, call,
                   read, kept, settled, disturbed>>

\* Mutant: the restored notes stay delivered too.
BadRestore(notes) ==
    /\ pending' = notes \o pending
    /\ UNCHANGED delivered

\* Mutant: everything delivered is pending again.
WideRestore(notes) ==
    /\ pending' = delivered \o pending
    /\ delivered' = <<>>

\* restore(): just these notes are pending again, ahead of the queue.
Restore(notes) ==
    /\ delivered' = Without(delivered, ToSet(notes))
    /\ pending' = notes \o pending

\* requeue(): an attempt was thrown away, and its notes with it.
Requeue ==
    /\ pending' = delivered \o pending
    /\ delivered' = <<>>

-----------------------------------------------------------------------------
(* deliver(): collect, attach, announce *)

\* collect() drains the queue, whether or not its turn is still open.  A
\* late delivery's result reaches no model: its turn has ended, its attempt
\* was thrown away, or its loop has given the tool up.
DeliverBegin(c) ==
    /\ turn > 0 /\ begun < MaxDeliveries
    /\ ~UnderWay(c)
    /\ \E late \in BOOLEAN :
          /\ phase = "open" \/ late
          /\ call' = [call EXCEPT ![c] = [Resting EXCEPT !.pc = "asking", !.notes = pending,
                                                         !.source = 1, !.unread = late]]
          /\ disturbed' = IF late THEN disturbed \cup ToSet(pending) ELSE disturbed
    /\ delivered' = delivered \o pending
    /\ pending' = <<>>
    /\ begun' = begun + 1
    /\ UNCHANGED <<minted, turn, phase, past>>

\* Then it asks each source, remembering what was delivered before it.
SourceBegin(c) ==
    /\ call[c].pc = "asking"
    /\ call[c].source <= Sources
    /\ call' = [call EXCEPT ![c].pc = "minting", ![c].before = ToSet(delivered)]
    /\ UNCHANGED <<inbox, turn, phase, begun, history>>

\* deliver_now(): the note is delivered as it is minted.
SourceMint(c) ==
    /\ call[c].pc = "minting"
    /\ minted < MaxNotes
    /\ minted' = minted + 1
    /\ delivered' = Append(delivered, minted')
    /\ call' = [call EXCEPT ![c].mine = Append(@, minted')]
    /\ disturbed' = IF call[c].unread THEN disturbed \cup {minted'} ELSE disturbed
    /\ UNCHANGED <<pending, turn, phase, begun, past>>

SourceReturn(c) ==
    /\ call[c].pc = "minting"
    /\ call' = [call EXCEPT ![c].pc = "asking", ![c].source = @ + 1,
                            ![c].notes = @ \o call[c].mine, ![c].mine = <<>>,
                            ![c].before = {}]
    /\ UNCHANGED <<inbox, turn, phase, begun, history>>

\* What is delivered now and was not before the source was asked is taken
\* for what it minted before it raised.
SourceRaise(c) ==
    LET since == Without(delivered, call[c].before)
    IN  /\ call[c].pc = "minting"
        /\ call' = [call EXCEPT ![c].pc = "asking", ![c].source = @ + 1,
                                ![c].stray = @ \o since, ![c].mine = <<>>,
                                ![c].before = {}]
        /\ disturbed' = disturbed \cup (ToSet(since) \ ToSet(call[c].mine))
        /\ UNCHANGED <<inbox, turn, phase, begun, past>>

\* What failing sources minted goes back to the queue, once for them all.
Collected(c) ==
    /\ call[c].pc = "asking"
    /\ call[c].source > Sources
    /\ Restore(call[c].stray)
    /\ call' = [call EXCEPT ![c] = IF @.notes = <<>> THEN Resting
                                   ELSE [@ EXCEPT !.pc = "attaching", !.stray = <<>>]]
    /\ UNCHANGED <<minted, turn, phase, begun, history>>

\* The notes are appended to the result, or rendering them raises and they
\* go back.
Attach(c) ==
    /\ call[c].pc = "attaching"
    /\ \/ /\ call' = [call EXCEPT ![c].pc = "announcing"]
          /\ UNCHANGED inbox
       \/ /\ Restore(call[c].notes)
          /\ call' = [call EXCEPT ![c] = Resting]
          /\ UNCHANGED minted
    /\ UNCHANGED <<turn, phase, begun, history>>

\* Mutant: a cancelled adeliver() leaves its notes delivered.
BadAnnounce(c) ==
    /\ call[c].pc = "announcing"
    /\ \/ read' = IF call[c].unread THEN read ELSE read \cup ToSet(call[c].notes)
       \/ UNCHANGED read
    /\ call' = [call EXCEPT ![c] = Resting]
    /\ UNCHANGED <<inbox, turn, phase, begun, kept, settled, withdrawn, disturbed>>

\* The result goes to the model, unless nobody is left to read it; or a
\* cancel reaches adeliver() while it awaits on_delivered.
Announce(c) ==
    /\ call[c].pc = "announcing"
    /\ \/ /\ read' = IF call[c].unread THEN read ELSE read \cup ToSet(call[c].notes)
          /\ UNCHANGED inbox
       \/ /\ Restore(call[c].notes)
          /\ UNCHANGED <<minted, read>>
    /\ call' = [call EXCEPT ![c] = Resting]
    /\ UNCHANGED <<turn, phase, begun, kept, settled, withdrawn, disturbed>>

-----------------------------------------------------------------------------
(* The turn *)

\* begin(): refused while another turn is open.
Begin ==
    /\ phase = "none" /\ turn < MaxTurns
    /\ turn' = turn + 1
    /\ phase' = "open"
    /\ read' = {}
    /\ UNCHANGED <<inbox, begun, call, kept, settled, withdrawn, disturbed>>

\* The deliveries under way are overtaken: no model reads their results.
Overtake ==
    /\ call' = [c \in Calls |-> [call[c] EXCEPT !.unread = UnderWay(c)]]
    /\ disturbed' = disturbed \cup UNION {Carried(c) : c \in Calls}

\* The loop throws the attempt away and starts it again: its messages, and
\* the notes on them, are gone.
Retry ==
    /\ phase = "open"
    /\ Requeue
    /\ read' = {}
    /\ Overtake
    /\ UNCHANGED <<minted, turn, phase, begun, kept, settled, withdrawn>>

\* end(): a second end, racing or late, is refused.
EndBegin ==
    /\ phase = "open"
    /\ phase' = "ending"
    /\ Overtake
    /\ UNCHANGED <<inbox, turn, begun, past>>

\* The end goes on to settle when it was given nothing to store, or stored
\* it; when storing raises, the notes go back to the front and the slot is
\* released.
EndStore ==
    /\ phase = "ending"
    /\ \/ /\ phase' = "settling"
          /\ kept' = kept \cup read
          /\ UNCHANGED <<inbox, read>>
       \/ /\ phase' = "none"
          /\ Requeue
          /\ read' = {}
          /\ UNCHANGED <<minted, kept>>
    /\ UNCHANGED <<turn, begun, call, settled, withdrawn, disturbed>>

\* settle(), the commit, and the slot is released whatever happened.
EndSettle ==
    /\ phase = "settling"
    /\ settled' = settled \cup ToSet(delivered)
    /\ delivered' = <<>>
    /\ phase' = "none"
    /\ read' = {}
    /\ UNCHANGED <<pending, minted, turn, begun, call, kept, withdrawn, disturbed>>

-----------------------------------------------------------------------------

Init ==
    /\ pending = <<>> /\ delivered = <<>> /\ minted = 0
    /\ turn = 0 /\ phase = "none" /\ begun = 0
    /\ call = [c \in Calls |-> Resting]
    /\ read = {} /\ kept = {} /\ settled = {} /\ withdrawn = {} /\ disturbed = {}

Deliver(c) ==
    \/ DeliverBegin(c)
    \/ SourceBegin(c) \/ SourceMint(c) \/ SourceReturn(c) \/ SourceRaise(c)
    \/ Collected(c) \/ Attach(c) \/ Announce(c)

Next ==
    \/ Put
    \/ \E n \in Notes : Withdraw(n)
    \/ \E c \in Calls : Deliver(c)
    \/ Begin \/ Retry
    \/ EndBegin \/ EndStore \/ EndSettle

Spec == Init /\ [][Next]_vars

-----------------------------------------------------------------------------
(* Properties *)

\* The inbox, the turn and every delivery are what they should be.
TypeOK ==
    /\ pending \in Seq(Notes) /\ delivered \in Seq(Notes)
    /\ minted \in 0..MaxNotes
    /\ turn \in 0..MaxTurns /\ begun \in 0..MaxDeliveries
    /\ phase \in {"none", "open", "ending", "settling"}
    /\ call \in [Calls -> [pc : {"idle", "asking", "minting", "attaching", "announcing"},
                           notes : Seq(Notes), source : 0..Sources + 1,
                           before : SUBSET Notes, mine : Seq(Notes),
                           stray : Seq(Notes), unread : BOOLEAN]]
    /\ read \subseteq Notes /\ kept \subseteq Notes
    /\ settled \subseteq Notes /\ withdrawn \subseteq Notes /\ disturbed \subseteq Notes

\* No note is lost: every one ever minted is pending, delivered, settled or
\* withdrawn, however deliveries, failures, retries and ends interleave.
\* And one whose delivery was left alone is not doubled or raised from the
\* dead: it is in one of these places, once.
OnePlace ==
    LET held == pending \o delivered
        away == settled \cup withdrawn
    IN  /\ TypeOK
        /\ ToSet(held) \cup away = 1..minted
        /\ \A i, j \in DOMAIN held : held[i] = held[j] => i = j \/ held[i] \in disturbed
        /\ ToSet(held) \cap away \subseteq disturbed
        /\ settled \cap withdrawn \subseteq disturbed

\* "Only these notes move: anything delivered earlier in the attempt reached
\* the model and stays delivered": whatever else fails, what the model has
\* read in this attempt is not queued to be told to it again, unless a
\* source that raised took it for its own or its result was first lost to
\* the model.
ReadStaysDelivered ==
    phase = "open" => read \subseteq ToSet(delivered) \cup disturbed

\* A note is forgotten only when the model has read it, in an attempt that
\* its turn's end kept: a delivery that failed or was cancelled, and one
\* that went down with its attempt or with a run that could not be stored,
\* never costs the model the note.  Disturbed notes are the exception.
SettledWasRead == settled \subseteq kept \cup disturbed

(* What the documentation says and the code does not do *)

\* restore: "Only these notes move: anything delivered earlier in the attempt
\* reached the model and stays delivered".
OnlyTheseMove == phase = "open" => read \subseteq ToSet(delivered)

\* settle: a note cannot come back, "which is correct once the model's reply to
\* it is part of the conversation".
OnlyReadIsForgotten == settled \subseteq kept
=============================================================================
