---------------------------- MODULE DeviceProofs ----------------------------
(***************************************************************************)
(* A grant that a device enforces: for any deadline and any number of       *)
(* grants, renewals and faults, a device is never open without the daemon's *)
(* record of it, a token sets one deadline, and a revert that returned Ok   *)
(* left the device closed and its load off, as long as no interrupted write *)
(* leaves the flash sector of the anti-replay mark empty.                   *)
(***************************************************************************)
EXTENDS Device, TLAPS

(***************************************************************************)
(* The inductive invariant.                                                 *)
(***************************************************************************)
Links == [state : {"idle", "sent", "answered"}, cmd : sent \union {Stat}, reply : Replies]

TypeInv == TypeOK /\ link \in Links

\* The device may still accept this token.
Live(c) == c.is = "TOK" /\ c.seq > read_mark(flash)

\* Nothing is open and nothing that was sent can open it.
Dead == device.nonce = 0 /\ \A c \in sent : ~Live(c)

\* The load is off, but for an energized fail-state after a boot.
LoadFine == relay.load => device.reason = "boot" /\ relay.energized

\* What set a deadline is at or below the mark.
BelowMark == \A i \in 1 .. Len(anchored) : anchored[i] <= read_mark(flash)

\* A token sets at most one deadline.
Once == \A i, j \in 1 .. Len(anchored) : anchored[i] = anchored[j] => i = j
BooksOK == erased = FALSE /\ anchored \in Seq(Nat) /\ BelowMark /\ Once

\* A grant the device holds, and whatever it may still accept, is the one on
\* record.
Held == device.nonce # 0 => device.nonce = ledger.open_nonce
LiveIsOwn == \A c \in sent : Live(c) => c.nonce = ledger.open_nonce

\* The steps of each driver call, and what the daemon holds the host to be.
OpOK ==
    \/ op = NoOp
    \/ /\ op.kind = "apply" /\ op.at \in {"record", "reserve", "deliver", "readback"}
       /\ host = "opening"
    \/ op.kind = "renew" /\ op.at \in {"reserve", "deliver"} /\ host = "open"
    \/ /\ op.kind = "revert" /\ op.at \in {"which", "reserve", "deliver", "readback", "clear", "close"}
       /\ host = "needs-revert"
    \/ op.kind = "restore" /\ op.at = "readback" /\ host = "restoring"

\* Between which steps the nonce of a grant is on record.
NonceOK ==
    /\ op.nonce # 0 \/ op.kind \in {"none", "restore"} \/ op.at = "which"
    /\ host = "closed" => ledger.open_nonce = 0
    /\ op.at \in {"record", "which", "close"} => ledger.open_nonce = 0
    /\ op.kind \in {"apply", "renew"} /\ op.at # "record" => op.nonce = ledger.open_nonce

\* A transaction carries the command of its step, and an answer fits it.
Asked == IF op.at # "deliver" THEN Stat
         ELSE IF op.kind = "revert" THEN Rvk(op.nonce, ledger.next_seq)
         ELSE Cap(op.nonce, ledger.next_seq)
LinkOK ==
    /\ link.state = "idle" <=> op.at \notin {"deliver", "which", "readback"}
    /\ link.state = "idle" => link = Quiet
    /\ link.state # "idle" => link.cmd = Asked
    /\ link.state = "sent" => link.reply = NoReply
    /\ link.cmd.is # "STAT" => link.reply.is # "state"
    /\ link.reply = AckClosed => link.cmd.is = "RVK"

\* An acknowledged revocation is the end of every token sent before it.
AckMeansDead ==
    /\ link.reply = AckClosed => Dead
    /\ late = AckClosed => Dead /\ host = "needs-revert"
    /\ op.kind = "revert" /\ op.at \in {"readback", "clear"} => Dead

\* A report that misses its transaction is not heard by a read-back that
\* follows another transaction of the same call.
LateOK ==
    /\ op.at = "readback" /\ op.kind \in {"apply", "revert"} => late.is # "state"
    /\ op.at \in {"clear", "close"} => late # AckClosed

\* From the report that a revert believes on, the load is off.
LoadOK ==
    /\ op.kind = "revert" /\ op.at = "readback" /\ link.reply.is = "state"
          /\ ActuatorOK(link.reply, FALSE) => LoadFine
    /\ op.at = "clear" \/ ledger.open_nonce = 0 => LoadFine

DriverInv == OpOK /\ NonceOK /\ LinkOK /\ AckMeansDead /\ LateOK

IInv ==
    /\ TypeInv /\ BooksOK
    /\ Held /\ LiveIsOwn
    /\ DriverInv
    /\ LoadOK

(***************************************************************************)
(* The types, by side.                                                      *)
(***************************************************************************)
Kinds == {"none", "apply", "renew", "revert", "restore"}
Steps == {"none", "record", "reserve", "deliver", "which", "readback", "clear", "close"}
Ops == [kind : Kinds, at : Steps, nonce : Nonces]
Tokens(n) == [is : {"TOK", "RVK"}, nonce : Nonces \ {0}, seq : 1 .. n]

DaemonTypes ==
    /\ ledger \in [next_seq : Nat, open_nonce : Nonces]
    /\ host \in {"closed", "opening", "open", "restoring", "needs-revert"}
    /\ op \in Ops
    /\ drawn \in Nonces
    /\ renewals \in 0 .. MaxRenewals

LineTypes ==
    /\ sent \subseteq Tokens(ledger.next_seq)
    /\ link \in Links
    /\ late \in Replies
    /\ faults \in 0 .. MaxFaults

DeviceTypes ==
    /\ device \in [nonce : Nonces, left : 0 .. TTL, reason : Reasons]
    /\ device.nonce # 0 <=> device.left > 0
    /\ flash \in [0 .. 1 -> 0 .. ledger.next_seq]
    /\ relay \in [load : BOOLEAN, energized : BOOLEAN, stuck : BOOLEAN]
    /\ erased \in BOOLEAN

LEMMA TypeSplit == TypeInv <=> DaemonTypes /\ LineTypes /\ DeviceTypes
  <1>1. link \in Links => link.state \in {"idle", "sent", "answered"} /\ link.cmd \in sent \union {Stat} /\ link.reply \in Replies
    BY DEF Links
  <1> QED
    BY <1>1 DEF TypeInv, TypeOK, DaemonTypes, LineTypes, DeviceTypes, Ops, Kinds, Steps, Tokens

\* Every fault is counted.
LEMMA FaultType ==
    ASSUME faults \in 0 .. MaxFaults, Fault \/ UNCHANGED faults
    PROVE  faults' \in 0 .. MaxFaults
  BY DeviceAssumption DEF Fault

(***************************************************************************)
(* The flash record.                                                        *)
(***************************************************************************)
\* Storing a mark that is higher than the present one makes it the mark.
LEMMA MarkFacts ==
    ASSUME NEW n \in Nat, flash \in [0 .. 1 -> 0 .. n], NEW seq \in 1 .. n, seq > read_mark(flash)
    PROVE  /\ read_mark(flash) \in Nat
           /\ Stored(seq) \in [0 .. 1 -> 0 .. n] /\ read_mark(Stored(seq)) = seq
  <1>1. 0 \in 0 .. 1 /\ 1 \in 0 .. 1 /\ flash[0] \in 0 .. n /\ flash[1] \in 0 .. n
    OBVIOUS
  <1>2. write_plan(flash) \in 0 .. 1
    BY DEF write_plan
  <1>3. CASE flash[0] # 0 /\ flash[0] >= flash[1]
    BY <1>1, <1>2, <1>3 DEF read_mark, write_plan, Stored
  <1>4. CASE ~(flash[0] # 0 /\ flash[0] >= flash[1])
    BY <1>1, <1>2, <1>4 DEF read_mark, write_plan, Stored
  <1> QED
    BY <1>3, <1>4

\* Unless the sector is left empty, an interrupted write never lowers the mark:
\* the slot it does not replace holds the old one.
LEMMA InterruptedMark ==
    ASSUME NEW n \in Nat, flash \in [0 .. 1 -> 0 .. n], NEW seq \in 1 .. n, seq > read_mark(flash),
           Interrupted(seq), erased' = FALSE, erased \in BOOLEAN
    PROVE  /\ flash' \in [0 .. 1 -> 0 .. n] /\ read_mark(flash) \in Nat
           /\ read_mark(flash') \in Nat /\ read_mark(flash) <= read_mark(flash')
           /\ erased = FALSE
  <1>1. PICK whole \in SUBSET (0 .. 1) :
          /\ flash' = [i \in 0 .. 1 |-> IF i \in whole THEN Stored(seq)[i] ELSE 0]
          /\ erased' = (erased \/ whole = {})
    BY DEF Interrupted
  <1>2. whole # {} /\ erased = FALSE
    BY <1>1
  <1>3. 0 \in whole \/ 1 \in whole
    <2>1. PICK i \in whole : TRUE
      BY <1>2
    <2>2. i \in 0 .. 1
      BY <1>1
    <2>3. i = 0 \/ i = 1
      BY <2>2
    <2> QED
      BY <2>1, <2>3
  <1>4. /\ 0 \in 0 .. 1 /\ 1 \in 0 .. 1 /\ flash[0] \in 0 .. n /\ flash[1] \in 0 .. n
        /\ write_plan(flash) \in 0 .. 1 /\ Stored(seq) \in [0 .. 1 -> 0 .. n]
    BY DEF write_plan, Stored
  <1>5. flash' \in [0 .. 1 -> 0 .. n]
    BY <1>1, <1>4
  <1>6. /\ flash'[0] = IF 0 \in whole THEN Stored(seq)[0] ELSE 0
        /\ flash'[1] = IF 1 \in whole THEN Stored(seq)[1] ELSE 0
    BY <1>1, <1>4
  <1>7. CASE write_plan(flash) = 0
    <2>1. Stored(seq)[0] = seq /\ Stored(seq)[1] = flash[1] /\ flash[1] = read_mark(flash)
      BY <1>4, <1>7 DEF Stored, write_plan, read_mark
    <2> QED
      BY <1>2, <1>3, <1>4, <1>5, <1>6, <2>1 DEF read_mark
  <1>8. CASE write_plan(flash) = 1
    <2>1. Stored(seq)[1] = seq /\ Stored(seq)[0] = flash[0] /\ flash[0] = read_mark(flash)
      BY <1>4, <1>8 DEF Stored, write_plan, read_mark
    <2> QED
      BY <1>2, <1>3, <1>4, <1>5, <1>6, <2>1 DEF read_mark
  <1>9. write_plan(flash) = 0 \/ write_plan(flash) = 1
    BY DEF write_plan
  <1> QED
    BY <1>7, <1>8, <1>9

\* The mark is a number.
LEMMA MarkType ==
    ASSUME NEW n \in Nat, flash \in [0 .. 1 -> 0 .. n]
    PROVE  read_mark(flash) \in Nat
  BY DEF read_mark

(***************************************************************************)
(* What the device may do in a step.                                        *)
(***************************************************************************)
DeviceMoves ==
    /\ read_mark(flash) <= read_mark(flash')
    /\ device'.nonce # 0 =>
          device'.nonce = device.nonce \/ \E c \in sent : Live(c) /\ c.nonce = device'.nonce
    /\ Dead /\ LoadFine => LoadFine'
    /\ relay'.energized = relay.energized

\* ... and the books it keeps.
DeviceBooks == DeviceTypes' /\ BooksOK'

\* A write of the mark that came through, half way, or not at all.
LEMMA WriteFacts ==
    ASSUME TypeInv, BooksOK, UNCHANGED <<ledger, sent, anchored>>,
           UNCHANGED <<flash, erased>> \/ \E c \in sent : Fresh(c) /\ Interrupted(c.seq),
           erased' = FALSE
    PROVE  /\ read_mark(flash) \in Nat /\ read_mark(flash') \in Nat
           /\ read_mark(flash) <= read_mark(flash')
           /\ flash' \in [0 .. 1 -> 0 .. ledger.next_seq]
           /\ erased' \in BOOLEAN
           /\ BooksOK'
  <1>0. DaemonTypes /\ LineTypes /\ DeviceTypes
    BY TypeSplit
  <1>1. ledger.next_seq \in Nat /\ flash \in [0 .. 1 -> 0 .. ledger.next_seq]
    BY <1>0 DEF DaemonTypes, DeviceTypes
  <1>2. read_mark(flash) \in Nat
    BY <1>1, MarkType
  <1>3. /\ read_mark(flash') \in Nat /\ read_mark(flash) <= read_mark(flash')
        /\ flash' \in [0 .. 1 -> 0 .. ledger.next_seq]
    <2>3. CASE flash' = flash
      BY <1>1, <1>2, <2>3
    <2>4. CASE \E c \in sent : Fresh(c) /\ Interrupted(c.seq)
      <3>1. PICK c \in sent : Fresh(c) /\ Interrupted(c.seq)
        BY <2>4
      <3>2. c.seq \in 1 .. ledger.next_seq /\ c.seq > read_mark(flash)
        BY <1>0, <3>1 DEF LineTypes, Tokens, Fresh
      <3>3. erased \in BOOLEAN
        BY <1>0 DEF DeviceTypes
      <3> QED
        BY <1>1, <3>1, <3>2, <3>3, InterruptedMark
    <2> QED
      BY <2>3, <2>4
  <1>4. \A i \in 1 .. Len(anchored) : anchored[i] \in Nat
    BY DEF BooksOK
  <1>5. BelowMark' /\ Once' /\ anchored' \in Seq(Nat)
    BY <1>2, <1>3, <1>4 DEF BooksOK, BelowMark, Once
  <1>6. erased' \in BOOLEAN
    OBVIOUS
  <1> QED
    BY <1>2, <1>3, <1>5, <1>6 DEF BooksOK

\* A write that reported an error.
LEMMA MarkMoves ==
    ASSUME TypeInv, BooksOK, UNCHANGED <<ledger, sent, anchored, device, relay>>,
           UNCHANGED <<flash, erased>> \/ \E c \in sent : Fresh(c) /\ Interrupted(c.seq),
           erased' = FALSE
    PROVE  DeviceMoves /\ DeviceBooks
  <1>1. DeviceTypes /\ DeviceTypes'
    BY TypeSplit, WriteFacts DEF DeviceTypes
  <1> QED
    BY <1>1, WriteFacts DEF DeviceMoves, DeviceBooks, LoadFine

\* A boot, after such a write or without one.
LEMMA BootMoves ==
    ASSUME TypeInv, BooksOK, Boot, UNCHANGED <<ledger, sent, anchored>>,
           UNCHANGED <<flash, erased>> \/ \E c \in sent : Fresh(c) /\ Interrupted(c.seq),
           erased' = FALSE
    PROVE  DeviceMoves /\ DeviceBooks
  <1>0. DaemonTypes /\ LineTypes /\ DeviceTypes
    BY TypeSplit
  <1>1. /\ device' = Booted /\ relay' = [relay EXCEPT !.load = relay.energized, !.stuck = FALSE]
    BY DEF Boot
  <1>3. /\ relay' \in [load : BOOLEAN, energized : BOOLEAN, stuck : BOOLEAN]
        /\ relay'.load = relay.energized /\ relay'.energized = relay.energized
    BY <1>0, <1>1 DEF DeviceTypes
  <1>4. /\ device' \in [nonce : Nonces, left : 0 .. TTL, reason : Reasons]
        /\ device'.nonce = 0 /\ device'.left = 0 /\ device'.reason = "boot"
    BY <1>1, DeviceAssumption DEF Booted, Nonces, Reasons
  <1>5. DeviceTypes'
    <2>1. flash' \in [0 .. 1 -> 0 .. ledger'.next_seq] /\ erased' \in BOOLEAN
      BY WriteFacts
    <2> QED
      BY <1>3, <1>4, <2>1 DEF DeviceTypes
  <1>7. DeviceMoves
    BY <1>3, <1>4, WriteFacts DEF DeviceMoves, LoadFine
  <1> QED
    BY <1>5, <1>7, WriteFacts DEF DeviceBooks

LEMMA RelayMoves ==
    ASSUME TypeInv, BooksOK, Stick \/ Free
    PROVE  DeviceMoves /\ DeviceBooks
  <1>0. DaemonTypes /\ LineTypes /\ DeviceTypes
    BY TypeSplit
  <1>1. UNCHANGED <<device, flash, anchored, erased, ledger, sent>>
    BY DEF Stick, Free, daemonVars
  <1>2. /\ relay' \in [load : BOOLEAN, energized : BOOLEAN, stuck : BOOLEAN]
        /\ relay'.energized = relay.energized
        /\ relay'.load = relay.load \/ relay'.load = (device.nonce # 0)
    BY <1>0 DEF DeviceTypes, Stick, Free
  <1>3. ledger.next_seq \in Nat /\ read_mark(flash) \in Nat
    BY <1>0, MarkType DEF DaemonTypes, DeviceTypes
  <1>4. DeviceBooks
    BY <1>0, <1>1, <1>2 DEF DeviceBooks, BooksOK, DeviceTypes, BelowMark, Once
  <1>5. DeviceMoves
    BY <1>1, <1>2, <1>3 DEF DeviceMoves, Dead, LoadFine
  <1> QED
    BY <1>4, <1>5

LEMMA TickMoves ==
    ASSUME TypeInv, BooksOK, Tick
    PROVE  DeviceMoves /\ DeviceBooks
  <1>0. DaemonTypes /\ LineTypes /\ DeviceTypes
    BY TypeSplit
  <1>1. UNCHANGED <<flash, anchored, erased, ledger, sent>> /\ device.nonce # 0
    BY <1>0 DEF Tick, daemonVars, DeviceTypes
  <1>2. device.left \in 0 .. TTL /\ device.left > 0 /\ TTL \in Nat
    BY <1>0, DeviceAssumption DEF DeviceTypes, Tick
  <1>3. /\ device' \in [nonce : Nonces, left : 0 .. TTL, reason : Reasons]
        /\ device'.nonce # 0 <=> device'.left > 0
        /\ device'.nonce \in {0, device.nonce}
    <2>1. CASE device.left > 1 /\ device' = [device EXCEPT !.left = device.left - 1]
      BY <1>0, <1>1, <1>2, <2>1 DEF DeviceTypes
    <2>2. CASE device' = [nonce |-> 0, left |-> 0, reason |-> "expiry"]
      BY <1>2, <2>2, DeviceAssumption DEF Nonces, Reasons
    <2> QED
      BY <2>1, <2>2 DEF Tick
  <1>4. relay' \in [load : BOOLEAN, energized : BOOLEAN, stuck : BOOLEAN] /\ relay'.energized = relay.energized
    BY <1>0 DEF Tick, Driven, DeviceTypes
  <1>5. ledger.next_seq \in Nat /\ read_mark(flash) \in Nat
    BY <1>0, MarkType DEF DaemonTypes, DeviceTypes
  <1>6. DeviceBooks
    BY <1>0, <1>1, <1>3, <1>4 DEF DeviceBooks, BooksOK, DeviceTypes, BelowMark, Once
  <1>7. DeviceMoves
    BY <1>1, <1>3, <1>4, <1>5 DEF DeviceMoves, Dead
  <1> QED
    BY <1>6, <1>7

\* handle_line of a token that was sent.
LEMMA LineMoves ==
    ASSUME TypeInv, BooksOK, NEW c \in sent \union {Stat}, HandleLine(c), UNCHANGED <<ledger, sent>>
    PROVE  DeviceMoves /\ DeviceBooks
  <1>0. DaemonTypes /\ LineTypes /\ DeviceTypes
    BY TypeSplit
  <1>1. ledger.next_seq \in Nat /\ read_mark(flash) \in Nat /\ flash \in [0 .. 1 -> 0 .. ledger.next_seq]
    BY <1>0, MarkType DEF DaemonTypes, DeviceTypes
  <1>2. c.is # "STAT" => c \in sent /\ c.nonce \in Nonces \ {0} /\ c.seq \in 1 .. ledger.next_seq
    BY <1>0 DEF LineTypes, Tokens, Stat
  <1>3. \A i \in 1 .. Len(anchored) : anchored[i] \in Nat /\ anchored[i] <= read_mark(flash)
    BY DEF BooksOK, BelowMark
  <1>4. \A b \in BOOLEAN : /\ Driven(b) \in [load : BOOLEAN, energized : BOOLEAN, stuck : BOOLEAN]
                           /\ Driven(b).energized = relay.energized
    BY <1>0 DEF DeviceTypes, Driven
  <1>8. erased' = FALSE /\ erased = FALSE /\ erased' \in BOOLEAN
    BY DEF HandleLine, Anchor, Revoke, deviceVars, BooksOK
  <1>5. CASE Accepts(c) /\ Anchor(c)
    <2>1. /\ c.is = "TOK" /\ c \in sent /\ c.seq > read_mark(flash) /\ c.seq \in 1 .. ledger.next_seq
          /\ c.nonce \in Nonces \ {0}
      BY <1>2, <1>5 DEF Accepts, Fresh
    <2>2. /\ read_mark(flash') = c.seq /\ flash' \in [0 .. 1 -> 0 .. ledger.next_seq]
      BY <1>1, <1>5, <2>1, MarkFacts DEF Anchor
    <2>3. /\ device' \in [nonce : Nonces, left : 0 .. TTL, reason : Reasons]
          /\ device'.nonce = c.nonce /\ device'.left = TTL
      BY <1>5, <2>1, DeviceAssumption DEF Anchor, Reasons
    <2>10. /\ relay' \in [load : BOOLEAN, energized : BOOLEAN, stuck : BOOLEAN]
           /\ relay'.energized = relay.energized
      BY <1>4, <1>5 DEF Anchor
    <2>4. DeviceTypes'
      BY <1>8, <2>1, <2>2, <2>3, <2>10, DeviceAssumption DEF DeviceTypes
    <2>5. /\ anchored \in Seq(Nat) /\ c.seq \in Nat
          /\ anchored' = Append(anchored, c.seq)
      BY <1>5, <1>8, <2>1 DEF Anchor, BooksOK
    <2>6. /\ anchored' \in Seq(Nat) /\ Len(anchored') = Len(anchored) + 1 /\ Len(anchored) \in Nat
          /\ anchored'[Len(anchored) + 1] = c.seq
          /\ \A i \in 1 .. Len(anchored) : anchored'[i] = anchored[i]
      BY <2>5
    <2>7. BelowMark'
      <3> SUFFICES ASSUME NEW i \in 1 .. Len(anchored) + 1 PROVE anchored'[i] <= c.seq
        BY <2>2, <2>6 DEF BelowMark
      <3> QED
        BY <1>1, <1>3, <2>1, <2>5, <2>6
    <2>8. Once'
      <3>1. \A i \in 1 .. Len(anchored) : anchored[i] # c.seq
        BY <1>1, <1>3, <2>1, <2>5
      <3> QED
        BY <2>6, <3>1 DEF Once, BooksOK
    <2>9. DeviceMoves
      <3>1. Live(c) /\ ~Dead
        BY <2>1 DEF Live, Dead
      <3>2. c.seq \in Nat /\ read_mark(flash) <= c.seq
        BY <1>1, <2>1
      <3> QED
        BY <2>1, <2>2, <2>3, <2>10, <3>1, <3>2 DEF DeviceMoves
    <2> QED
      BY <1>8, <2>4, <2>6, <2>7, <2>8, <2>9 DEF DeviceBooks, BooksOK
  <1>6. CASE Revokes(c) /\ Revoke(c)
    <2>1. /\ c.is = "RVK" /\ c \in sent /\ c.seq > read_mark(flash) /\ c.seq \in 1 .. ledger.next_seq
          /\ c.nonce \in Nonces \ {0}
      BY <1>2, <1>6 DEF Revokes, Fresh
    <2>2. /\ read_mark(flash') = c.seq /\ flash' \in [0 .. 1 -> 0 .. ledger.next_seq]
      BY <1>1, <1>6, <2>1, MarkFacts DEF Revoke
    <2>3. anchored' = anchored
      BY <1>6 DEF Revoke
    <2>4. \/ UNCHANGED <<device, relay>>
          \/ /\ device' = [nonce |-> 0, left |-> 0, reason |-> "revert"] /\ relay' = Driven(FALSE)
             /\ device.nonce = c.nonce
      BY <1>6 DEF Revoke
    <2>8. /\ relay' \in [load : BOOLEAN, energized : BOOLEAN, stuck : BOOLEAN]
          /\ relay'.energized = relay.energized
      BY <1>0, <1>4, <2>4 DEF DeviceTypes
    <2>9. /\ device' \in [nonce : Nonces, left : 0 .. TTL, reason : Reasons]
          /\ device'.nonce # 0 <=> device'.left > 0
          /\ device'.nonce \in {0, device.nonce}
      <3>1. CASE device' = device
        BY <1>0, <3>1 DEF DeviceTypes
      <3>2. CASE device' = [nonce |-> 0, left |-> 0, reason |-> "revert"]
        BY <3>2, DeviceAssumption DEF Nonces, Reasons
      <3> QED
        BY <2>4, <3>1, <3>2
    <2>5. DeviceTypes'
      BY <1>8, <2>2, <2>8, <2>9 DEF DeviceTypes
    <2>6. BelowMark' /\ Once' /\ anchored' \in Seq(Nat)
      BY <1>1, <1>3, <2>1, <2>2, <2>3 DEF BelowMark, Once, BooksOK
    <2>7. DeviceMoves
      <3>1. Dead => UNCHANGED <<device, relay>>
        BY <2>1, <2>4 DEF Dead
      <3>2. c.seq \in Nat /\ read_mark(flash) <= c.seq
        BY <1>1, <2>1
      <3> QED
        BY <2>2, <2>8, <2>9, <3>1, <3>2 DEF DeviceMoves, LoadFine
    <2> QED
      BY <1>8, <2>5, <2>6, <2>7 DEF DeviceBooks, BooksOK
  <1>7. CASE UNCHANGED deviceVars
    <2>1. UNCHANGED <<device, flash, relay, anchored, erased>>
      BY <1>7 DEF deviceVars
    <2> QED
      BY <1>0, <1>1, <2>1 DEF DeviceBooks, BooksOK, DeviceTypes, DeviceMoves, LoadFine, BelowMark, Once
  <1> QED
    BY <1>5, <1>6, <1>7 DEF HandleLine

(***************************************************************************)
(* Steps of the device.                                                     *)
(***************************************************************************)
\* Without a nonce on record nothing is open and nothing can open.
LEMMA UnrecordedIsDead ==
    ASSUME IInv, ledger.open_nonce = 0
    PROVE  Dead
  <1>1. \A c \in sent : c.nonce # 0
    BY TypeSplit DEF IInv, LineTypes, Tokens
  <1> QED
    BY <1>1 DEF IInv, Held, LiveIsOwn, Dead

\* A revert that has read back has closed the device.
LEMMA ClearIsDead ==
    ASSUME IInv, op.at = "clear"
    PROVE  Dead /\ op.kind = "revert"
  BY DEF IInv, DriverInv, AckMeansDead, OpOK, NoOp

\* What the device does keeps dead what is dead, and what may live the daemon's.
LEMMA MovesKeep ==
    ASSUME IInv, DeviceMoves, DeviceBooks, UNCHANGED <<ledger, sent>>
    PROVE  /\ Held' /\ LiveIsOwn'
           /\ Dead => Dead'
           /\ Dead /\ LoadFine => LoadFine'
  <1>0. DaemonTypes /\ LineTypes /\ DeviceTypes /\ DeviceTypes'
    BY TypeSplit DEF IInv, DeviceBooks
  <1>1. /\ ledger.next_seq \in Nat /\ ledger' = ledger
        /\ flash \in [0 .. 1 -> 0 .. ledger.next_seq] /\ flash' \in [0 .. 1 -> 0 .. ledger.next_seq]
    BY <1>0 DEF DaemonTypes, DeviceTypes
  <1>2. read_mark(flash) \in Nat /\ read_mark(flash') \in Nat /\ read_mark(flash) <= read_mark(flash')
    BY <1>1 DEF DeviceMoves, read_mark
  <1>3. \A c \in sent : c.seq \in Nat
    BY <1>0, <1>1 DEF LineTypes, Tokens
  <1>4. \A c \in sent : Live(c)' => Live(c)
    BY <1>2, <1>3 DEF Live
  <1>5. LiveIsOwn'
    BY <1>1, <1>4 DEF IInv, LiveIsOwn
  <1>6. Held'
    BY <1>1 DEF IInv, LiveIsOwn, Held, DeviceMoves
  <1>7. Dead => Dead'
    BY <1>4 DEF Dead, DeviceMoves
  <1> QED
    BY <1>5, <1>6, <1>7 DEF DeviceMoves

\* A step of the device alone.
LEMMA DeviceKeeps ==
    ASSUME IInv, DeviceMoves, DeviceBooks, UNCHANGED <<daemonVars, link, late, sent>>,
           Fault \/ UNCHANGED faults
    PROVE  IInv'
  <1>0. /\ UNCHANGED <<ledger, host, op, drawn, renewals, link, late, sent>>
        /\ DaemonTypes /\ LineTypes /\ DeviceTypes
    BY TypeSplit DEF daemonVars, IInv
  <1>1. /\ Held' /\ LiveIsOwn' /\ (Dead => Dead') /\ (Dead /\ LoadFine => LoadFine')
    BY <1>0, MovesKeep
  <1>2. TypeInv'
    <2>1. faults' \in 0 .. MaxFaults
      BY <1>0, FaultType DEF LineTypes
    <2>2. DaemonTypes' /\ LineTypes' /\ DeviceTypes'
      BY <1>0, <2>1 DEF DaemonTypes, LineTypes, Links, DeviceBooks
    <2> QED
      BY <2>2, TypeSplit, PTL
  <1>3. OpOK' /\ NonceOK' /\ LinkOK' /\ LateOK'
    BY <1>0 DEF IInv, DriverInv, OpOK, NonceOK, LinkOK, LateOK, Asked
  <1>4. AckMeansDead'
    BY <1>0, <1>1 DEF IInv, DriverInv, AckMeansDead
  <1>5. LoadOK'
    <2>1. ActuatorOK(link.reply, FALSE)' => ActuatorOK(link.reply, FALSE)
      BY <1>0 DEF ActuatorOK, DeviceMoves
    <2>2. op.at = "clear" => Dead
      BY ClearIsDead
    <2>3. ledger.open_nonce = 0 => Dead
      BY UnrecordedIsDead
    <2>4. (op.at = "clear" \/ ledger.open_nonce = 0) => LoadFine'
      BY <1>1, <2>2, <2>3 DEF IInv, LoadOK
    <2>5. /\ op.kind = "revert" /\ op.at = "readback" /\ link.reply.is = "state"
          /\ ActuatorOK(link.reply, FALSE)'
          => LoadFine'
      BY <1>1, <2>1 DEF IInv, LoadOK, DriverInv, AckMeansDead
    <2> QED
      BY <1>0, <2>4, <2>5 DEF LoadOK
  <1> QED
    BY <1>1, <1>2, <1>3, <1>4, <1>5 DEF IInv, DriverInv, DeviceBooks

\* What the engine answers to each sort of line.
LEMMA AnswerFacts ==
    ASSUME TypeInv, NEW c \in sent \union {Stat}
    PROVE  /\ Answer(c) \in Replies
           /\ c.is = "STAT" => Answer(c) = Report
           /\ c.is # "STAT" => Answer(c).is # "state"
           /\ Answer(c) = AckClosed => Revokes(c) /\ device.nonce \in {0, c.nonce}
  <1>0. DaemonTypes /\ LineTypes /\ DeviceTypes
    BY TypeSplit
  <1>1. c.is = "STAT" \/ (c.is \in {"TOK", "RVK"} /\ c.nonce \in Nonces)
    BY <1>0 DEF LineTypes, Tokens, Stat
  <1>2. Report \in Replies /\ Report.is = "state"
    BY <1>0 DEF DeviceTypes, Report, Replies
  <1>3. /\ AckClosed \in Replies /\ AckClosed.is = "closed"
        /\ Nak \in Replies /\ Nak.is = "nak"
    BY DEF AckClosed, Nak, Replies
  <1>4. \A n \in Nonces, l \in 0 .. TTL : AckOpen(n, l) \in Replies /\ AckOpen(n, l).is = "ack"
    BY DEF AckOpen, Replies
  <1>5. TTL \in 0 .. TTL /\ device.nonce \in Nonces /\ device.left \in 0 .. TTL
    BY <1>0, DeviceAssumption DEF DeviceTypes
  <1>6. CASE c.is = "STAT"
    <2>1. Answer(c) = Report
      BY <1>6 DEF Answer, Accepts, Revokes
    <2> QED
      BY <1>2, <1>3, <1>6, <2>1
  <1>7. CASE c.is = "TOK" /\ c.nonce \in Nonces
    <2>1. Answer(c) \in {AckOpen(c.nonce, TTL), AckOpen(device.nonce, device.left), Nak}
      BY <1>7 DEF Answer, Accepts, Revokes
    <2> QED
      BY <1>3, <1>4, <1>5, <1>7, <2>1
  <1>8. CASE c.is = "RVK"
    <2>1. \/ Answer(c) = AckClosed /\ Revokes(c) /\ device.nonce \in {0, c.nonce}
          \/ Answer(c) = Nak
      BY <1>8 DEF Answer, Accepts, Revokes
    <2> QED
      BY <1>3, <1>8, <2>1
  <1> QED
    BY <1>1, <1>6, <1>7, <1>8

LEMMA DeliverKeeps ==
    ASSUME IInv, Deliver
    PROVE  IInv'
  <1> DEFINE c == link.cmd
  <1>0. /\ UNCHANGED <<ledger, host, op, drawn, renewals, late, sent, faults>>
        /\ DaemonTypes /\ LineTypes /\ DeviceTypes
    BY TypeSplit DEF daemonVars, IInv, Deliver
  <1>1. link.state = "sent" /\ c = Asked /\ c \in sent \union {Stat} /\ link \in Links
    BY <1>0 DEF Deliver, IInv, DriverInv, LinkOK, LineTypes, Links
  <1>2. HandleLine(c) /\ link' = [link EXCEPT !.state = "answered", !.reply = Answer(c)]
    BY DEF Deliver
  <1>3. DeviceMoves /\ DeviceBooks
    BY <1>0, <1>1, <1>2, LineMoves DEF IInv
  <1>4. Held' /\ LiveIsOwn' /\ (Dead => Dead') /\ (Dead /\ LoadFine => LoadFine')
    BY <1>0, <1>3, MovesKeep
  <1>5. /\ Answer(c) \in Replies
        /\ c.is = "STAT" => Answer(c) = Report
        /\ c.is # "STAT" => Answer(c).is # "state"
        /\ Answer(c) = AckClosed => Revokes(c) /\ device.nonce \in {0, c.nonce}
    BY <1>1, AnswerFacts DEF IInv
  <1>6. link'.state = "answered" /\ link'.cmd = c /\ link'.reply = Answer(c) /\ link' \in Links
    <2> HIDE DEF c
    <2>1. c = link.cmd
      BY DEF c
    <2> QED
      BY <1>1, <1>2, <1>5, <2>1 DEF Links
  <1>7. TypeInv'
    <2>1. DaemonTypes' /\ LineTypes' /\ DeviceTypes'
      BY <1>0, <1>3, <1>6 DEF DaemonTypes, LineTypes, Links, DeviceBooks
    <2> QED
      BY <2>1, TypeSplit, PTL
  <1>8. OpOK' /\ NonceOK' /\ LateOK'
    BY <1>0 DEF IInv, DriverInv, OpOK, NonceOK, LateOK
  <1>9. LinkOK'
    <2>1. op.at \in {"deliver", "which", "readback"} /\ Asked' = Asked
      BY <1>0, <1>1 DEF IInv, DriverInv, LinkOK, Asked
    <2> QED
      BY <1>0, <1>1, <1>5, <1>6, <2>1 DEF LinkOK, Revokes
  <1>10. ASSUME Answer(c) = AckClosed PROVE Dead'
    <2>1. Revokes(c) /\ c.is = "RVK" /\ device.nonce \in {0, c.nonce} /\ c \in sent
      BY <1>1, <1>5, <1>10 DEF Revokes, Stat
    <2>2. c = Rvk(op.nonce, ledger.next_seq) /\ c.seq = ledger.next_seq
      BY <1>1, <2>1 DEF Asked, Rvk, Cap, Stat
    <2>3. Revoke(c)
      <3>1. ~Accepts(c)
        BY <2>1 DEF Accepts
      <3> QED
        BY <1>2, <2>1, <3>1 DEF HandleLine
    <2>4. device'.nonce = 0
      <3>1. c.nonce # 0
        BY <1>0, <2>1 DEF LineTypes, Tokens
      <3>2. CASE device.nonce = c.nonce
        BY <2>3, <3>2 DEF Revoke
      <3>3. CASE device.nonce = 0
        BY <2>3, <3>1, <3>3 DEF Revoke
      <3> QED
        BY <2>1, <3>2, <3>3
    <2>5. read_mark(flash') = ledger.next_seq
      BY <1>0, <2>1, <2>2, <2>3, MarkFacts DEF Revoke, Revokes, Fresh, DaemonTypes, DeviceTypes, LineTypes, Tokens
    <2>6. \A d \in sent : d.seq \in 1 .. ledger.next_seq
      BY <1>0 DEF LineTypes, Tokens
    <2> QED
      BY <1>0, <2>4, <2>5, <2>6 DEF Dead, Live, DaemonTypes
  <1>11. AckMeansDead'
    BY <1>0, <1>4, <1>6, <1>10 DEF IInv, DriverInv, AckMeansDead
  <1>12. LoadOK'
    <2>1. (op.at = "clear" \/ ledger.open_nonce = 0) => LoadFine'
      BY <1>4, ClearIsDead, UnrecordedIsDead DEF IInv, LoadOK
    <2>2. ASSUME op.at = "readback", Answer(c).is = "state",
                 Answer(c).load = FALSE \/ (Answer(c).reason = "boot" /\ relay'.energized)
          PROVE  LoadFine'
      <3>1. c = Stat /\ c.is = "STAT" /\ Answer(c) = Report
        BY <1>1, <1>5, <2>2 DEF Asked, Stat
      <3>2. UNCHANGED <<device, relay>>
        BY <1>2, <3>1 DEF HandleLine, Accepts, Revokes, deviceVars
      <3> QED
        BY <1>0, <2>2, <3>1, <3>2 DEF Report, LoadFine, DeviceTypes
    <2>3. ActuatorOK(link.reply, FALSE)' =>
            Answer(c).load = FALSE \/ (Answer(c).reason = "boot" /\ relay'.energized)
      BY <1>6 DEF ActuatorOK
    <2>4. link.reply' = Answer(c)
      BY <1>6
    <2> QED
      BY <1>0, <2>1, <2>2, <2>3, <2>4 DEF LoadOK
  <1> QED
    BY <1>3, <1>4, <1>7, <1>8, <1>9, <1>11, <1>12 DEF IInv, DriverInv, DeviceBooks

\* A step that leaves the device and the tokens alone.
DeviceIdle == UNCHANGED <<device, flash, relay, anchored, erased>>

LEMMA IdleFrame ==
    ASSUME IInv, DeviceIdle, UNCHANGED sent
    PROVE  /\ BooksOK' /\ (Dead <=> Dead') /\ (LoadFine <=> LoadFine')
           /\ \A r : ActuatorOK(r, FALSE)' <=> ActuatorOK(r, FALSE)
           /\ UNCHANGED ledger => DeviceTypes' /\ Held' /\ LiveIsOwn'
  <1>0. DeviceTypes
    BY TypeSplit DEF IInv
  <1>1. \A c : Live(c)' <=> Live(c)
    BY DEF Live, DeviceIdle
  <1>2. Dead <=> Dead'
    BY <1>1 DEF Dead, DeviceIdle
  <1>3. BooksOK'
    BY DEF IInv, BooksOK, BelowMark, Once, DeviceIdle
  <1>4. UNCHANGED ledger => DeviceTypes' /\ Held' /\ LiveIsOwn'
    BY <1>0, <1>1 DEF IInv, DeviceTypes, Held, LiveIsOwn, DeviceIdle
  <1> QED
    BY <1>2, <1>3, <1>4 DEF LoadFine, ActuatorOK, DeviceIdle

LEMMA StoreFailsKeeps ==
    ASSUME IInv, StoreFails, erased' = FALSE
    PROVE  IInv'
  <1>0. /\ UNCHANGED <<ledger, host, op, drawn, renewals, late, sent, device, relay, anchored>>
        /\ DaemonTypes /\ LineTypes /\ DeviceTypes /\ TypeInv /\ BooksOK
    BY TypeSplit DEF daemonVars, IInv, StoreFails
  <1>1. /\ link \in Links /\ link.state = "sent" /\ link.cmd \in sent
        /\ link' = [link EXCEPT !.state = "answered", !.reply = Nak]
    BY <1>0 DEF StoreFails, LineTypes, Links
  <1>2. Nak \in Replies /\ Nak.is = "nak" /\ Nak # AckClosed
    BY DEF Nak, AckClosed, Replies
  <1>3. link' \in Links /\ link'.state = "answered" /\ link'.cmd = link.cmd /\ link'.reply = Nak
    BY <1>1, <1>2 DEF Links
  <1>7. DeviceMoves /\ DeviceBooks
    <2>1. UNCHANGED <<flash, erased>> \/ \E c \in sent : Fresh(c) /\ Interrupted(c.seq)
      BY <1>1 DEF StoreFails, Accepts, Revokes
    <2> QED
      BY <1>0, <2>1, MarkMoves
  <1>8. Held' /\ LiveIsOwn' /\ (Dead => Dead') /\ (Dead /\ LoadFine => LoadFine')
    BY <1>0, <1>7, MovesKeep
  <1>4. TypeInv'
    <2>1. faults' \in 0 .. MaxFaults
      BY <1>0, FaultType DEF LineTypes, StoreFails
    <2>2. DaemonTypes' /\ LineTypes' /\ DeviceTypes'
      BY <1>0, <1>3, <1>7, <2>1 DEF DaemonTypes, LineTypes, Links, DeviceBooks
    <2> QED
      BY <2>2, TypeSplit, PTL
  <1>5. DriverInv'
    <2>1. OpOK' /\ NonceOK' /\ LateOK'
      BY <1>0 DEF IInv, DriverInv, OpOK, NonceOK, LateOK
    <2>2. LinkOK'
      BY <1>0, <1>1, <1>2, <1>3 DEF IInv, DriverInv, LinkOK, Asked
    <2>3. AckMeansDead'
      BY <1>0, <1>2, <1>3, <1>8 DEF IInv, DriverInv, AckMeansDead
    <2> QED
      BY <2>1, <2>2, <2>3 DEF DriverInv
  <1>6. LoadOK'
    <2>1. (op.at = "clear" \/ ledger.open_nonce = 0) => LoadFine'
      BY <1>8, ClearIsDead, UnrecordedIsDead DEF IInv, LoadOK
    <2> QED
      BY <1>0, <1>2, <1>3, <2>1 DEF LoadOK
  <1> QED
    BY <1>4, <1>5, <1>6, <1>7, <1>8 DEF IInv, DeviceBooks

(***************************************************************************)
(* Steps of the driver.                                                     *)
(***************************************************************************)
\* The line at rest, and with a question for the state.
LEMMA LineFacts ==
    /\ Quiet.state = "idle" /\ Quiet.cmd = Stat /\ Quiet.reply = NoReply
    /\ Quiet \in [state : {"idle", "sent", "answered"}, cmd : {Stat}, reply : Replies]
    /\ NoReply \in Replies /\ NoReply.is = "none" /\ NoReply # AckClosed
    /\ Stat.is = "STAT"
    /\ AckClosed.is = "closed"
    /\ NoOp \in Ops /\ NoOp.kind = "none" /\ NoOp.at = "none"
  <1>1. NoReply \in Replies /\ NoReply.is = "none" /\ NoReply # AckClosed /\ AckClosed.is = "closed"
    BY DEF NoReply, AckClosed, Replies
  <1>2. NoOp \in Ops /\ NoOp.kind = "none" /\ NoOp.at = "none"
    BY DeviceAssumption DEF NoOp, Ops, Kinds, Steps, Nonces
  <1> QED
    BY <1>1, <1>2 DEF Quiet, Stat

\* A call returns.
LEMMA ReturnKeeps ==
    ASSUME IInv, NEW state \in {"closed", "open", "needs-revert"}, Return(state), DeviceIdle,
           UNCHANGED <<drawn, renewals>>, Fault \/ UNCHANGED faults, late' \in Replies,
           state = "closed" => ledger.open_nonce = 0,
           late' = AckClosed => Dead /\ state = "needs-revert"
    PROVE  IInv'
  <1>0. /\ DaemonTypes /\ LineTypes /\ DeviceTypes
        /\ host' = state /\ op' = NoOp /\ link' = Quiet /\ UNCHANGED <<ledger, sent>>
    BY TypeSplit DEF IInv, Return
  <1>1. TypeInv'
    <2>1. faults' \in 0 .. MaxFaults
      BY <1>0, FaultType DEF LineTypes
    <2>2. DaemonTypes'
      BY <1>0, LineFacts DEF DaemonTypes
    <2>3. LineTypes'
      BY <1>0, <2>1, LineFacts DEF LineTypes, Links
    <2>4. DeviceTypes'
      BY <1>0, IdleFrame
    <2> QED
      BY <2>2, <2>3, <2>4, TypeSplit, PTL
  <1>2. OpOK' /\ NonceOK' /\ LateOK'
    BY <1>0, LineFacts DEF OpOK, NonceOK, LateOK
  <1>3. LinkOK'
    BY <1>0, LineFacts DEF LinkOK
  <1>4. AckMeansDead'
    BY <1>0, LineFacts, IdleFrame DEF AckMeansDead
  <1>5. LoadOK'
    BY <1>0, LineFacts, IdleFrame DEF IInv, LoadOK
  <1> QED
    BY <1>0, <1>1, <1>2, <1>3, <1>4, <1>5, IdleFrame DEF IInv, DriverInv

\* A call asks for the device's state.
LEMMA AskStatKeeps ==
    ASSUME IInv, NEW o \in Ops, Ask(o, Stat), DeviceIdle, UNCHANGED <<ledger, drawn, renewals>>,
           Fault \/ UNCHANGED faults, late' \in Replies, DaemonTypes', OpOK', NonceOK', LateOK',
           o.at \in {"which", "readback"},
           late' = AckClosed => Dead /\ host' = "needs-revert",
           o.kind = "revert" /\ o.at = "readback" => Dead
    PROVE  IInv'
  <1>0. /\ DaemonTypes /\ LineTypes /\ DeviceTypes
        /\ op' = o /\ link' = [state |-> "sent", cmd |-> Stat, reply |-> NoReply] /\ sent' = sent
    BY TypeSplit DEF IInv, Ask
  <1>1. link'.state = "sent" /\ link'.cmd = Stat /\ link'.reply = NoReply /\ link' \in Links'
    BY <1>0, LineFacts DEF Links
  <1>2. TypeInv'
    <2>1. faults' \in 0 .. MaxFaults
      BY <1>0, FaultType DEF LineTypes
    <2>2. LineTypes'
      BY <1>0, <1>1, <2>1, LineFacts DEF LineTypes
    <2>3. DeviceTypes'
      BY <1>0, IdleFrame
    <2> QED
      BY <2>2, <2>3, TypeSplit, PTL
  <1>3. LinkOK'
    BY <1>0, <1>1, LineFacts DEF LinkOK, Asked
  <1>4. AckMeansDead'
    BY <1>0, <1>1, LineFacts, IdleFrame DEF AckMeansDead
  <1>5. LoadOK'
    BY <1>0, <1>1, LineFacts, IdleFrame DEF IInv, LoadOK
  <1> QED
    BY <1>0, <1>2, <1>3, <1>4, <1>5, IdleFrame DEF IInv, DriverInv

\* A call goes on without the line.
LEMMA QuietKeeps ==
    ASSUME IInv, NEW o \in Ops, op' = o, link' = Quiet, DeviceIdle,
           UNCHANGED <<ledger, sent>>, faults' \in 0 .. MaxFaults, late' \in Replies,
           DaemonTypes', OpOK', NonceOK', LateOK',
           o.at \in {"reserve", "clear", "record"},
           late' = AckClosed => Dead /\ host' = "needs-revert",
           o.at = "clear" => Dead /\ LoadFine
    PROVE  IInv'
  <1>0. DaemonTypes /\ LineTypes /\ DeviceTypes
    BY TypeSplit DEF IInv
  <1>1. TypeInv'
    <2>2. LineTypes'
      BY <1>0, LineFacts DEF LineTypes, Links
    <2>3. DeviceTypes'
      BY <1>0, IdleFrame
    <2> QED
      BY <2>2, <2>3, TypeSplit, PTL
  <1>2. LinkOK'
    BY <1>0, LineFacts DEF LinkOK
  <1>3. AckMeansDead'
    BY <1>0, LineFacts, IdleFrame DEF AckMeansDead
  <1>4. LoadOK'
    BY <1>0, LineFacts, IdleFrame DEF IInv, LoadOK
  <1> QED
    BY <1>0, <1>1, <1>2, <1>3, <1>4, IdleFrame DEF IInv, DriverInv

\* revert begins, after a failed apply too.
LEMMA BeginRevertKeeps ==
    ASSUME IInv, BeginRevert, DeviceIdle, UNCHANGED <<drawn, renewals>>, Fault \/ UNCHANGED faults,
           late' \in Replies, late' = AckClosed => Dead
    PROVE  IInv'
  <1>0. /\ DaemonTypes /\ LineTypes /\ DeviceTypes /\ UNCHANGED ledger /\ host' = "needs-revert"
    BY TypeSplit DEF IInv, BeginRevert
  <1>1. CASE ledger.open_nonce # 0
    <2>1. /\ op' = [kind |-> "revert", at |-> "reserve", nonce |-> ledger.open_nonce]
          /\ link' = Quiet /\ sent' = sent
      BY <1>1 DEF BeginRevert
    <2>2. /\ op' \in Ops /\ op'.kind = "revert" /\ op'.at = "reserve" /\ op'.nonce = ledger.open_nonce
      BY <1>0, <2>1 DEF DaemonTypes, Ops, Kinds, Steps
    <2>3. DaemonTypes' /\ faults' \in 0 .. MaxFaults
      BY <1>0, <2>2, FaultType DEF DaemonTypes, LineTypes
    <2>4. OpOK' /\ NonceOK' /\ LateOK'
      BY <1>0, <1>1, <2>2 DEF OpOK, NonceOK, LateOK
    <2> QED
      BY <1>0, <2>1, <2>2, <2>3, <2>4, QuietKeeps
  <1>2. CASE ledger.open_nonce = 0
    <2>1. Ask([kind |-> "revert", at |-> "which", nonce |-> 0], Stat)
      BY <1>2 DEF BeginRevert
    <2>2. /\ op' = [kind |-> "revert", at |-> "which", nonce |-> 0]
          /\ op' \in Ops /\ op'.kind = "revert" /\ op'.at = "which"
      BY <2>1, DeviceAssumption DEF Ask, Ops, Kinds, Steps, Nonces
    <2>3. DaemonTypes'
      BY <1>0, <2>2 DEF DaemonTypes
    <2>4. OpOK' /\ NonceOK' /\ LateOK'
      BY <1>0, <1>2, <2>2 DEF OpOK, NonceOK, LateOK
    <2> QED
      BY <1>0, <2>1, <2>2, <2>3, <2>4, AskStatKeeps
  <1> QED
    BY <1>1, <1>2

\* Who hears an acknowledged revocation is reverting.
LEMMA AckedWhileReverting ==
    ASSUME IInv, link.reply = AckClosed
    PROVE  Dead /\ op.kind = "revert" /\ op.at = "deliver"
  <1>1. link.state # "idle" /\ link.cmd.is = "RVK" /\ link.cmd = Asked /\ Dead
    BY LineFacts DEF IInv, DriverInv, LinkOK, AckMeansDead
  <1> QED
    BY <1>1 DEF Asked, Stat, Rvk, Cap

\* A failed call.
LEMMA FailKeeps ==
    ASSUME IInv, Fail, DeviceIdle, UNCHANGED <<drawn, renewals>>, Fault \/ UNCHANGED faults,
           late' \in {NoReply, late, link.reply}
    PROVE  IInv'
  <1>0. late' \in Replies
    BY LineFacts, TypeSplit DEF IInv, LineTypes, Links
  <1>1. late' = AckClosed => Dead /\ op.kind \in {"revert", "none"}
    BY LineFacts, AckedWhileReverting DEF IInv, DriverInv, AckMeansDead, OpOK
  <1>2. CASE op.kind = "apply" /\ BeginRevert
    BY <1>0, <1>1, <1>2, BeginRevertKeeps
  <1>3. CASE op.kind = "renew" /\ Return("open")
    BY <1>0, <1>1, <1>3, ReturnKeeps
  <1>4. CASE op.kind \in {"revert", "restore"} /\ Return("needs-revert")
    BY <1>0, <1>1, <1>4, ReturnKeeps
  <1> QED
    BY <1>2, <1>3, <1>4 DEF Fail

\* What a good answer tells a revert.
LEMMA GoodFacts ==
    ASSUME IInv, NEW r, Good(r)
    PROVE  /\ op.at = "deliver" /\ op.kind = "revert" => r = AckClosed
           /\ op.at = "which" => r.is = "state"
           /\ op.at = "readback" /\ op.kind \in {"apply", "revert"} => r.is = "state"
           /\ op.at = "readback" /\ op.kind = "revert" => ActuatorOK(r, FALSE)
  <1>1. CASE op.at = "deliver"
    BY <1>1 DEF Good
  <1>2. CASE op.at = "which"
    BY <1>2 DEF Good
  <1>3. CASE op.at = "readback" /\ op.kind = "apply"
    BY <1>3 DEF Good
  <1>4. CASE op.at = "readback" /\ op.kind = "revert"
    BY <1>4 DEF Good
  <1> QED
    BY <1>1, <1>2, <1>3, <1>4

\* A call that heard what it wanted.
LEMMA OnwardKeeps ==
    ASSUME IInv, NEW r, Good(r), Onward(r), link.state # "idle", DeviceIdle,
           UNCHANGED <<drawn, renewals>>, Fault \/ UNCHANGED faults,
           \/ r = link.reply /\ late' = NoReply
           \/ r = late /\ late' \in {NoReply, link.reply}
    PROVE  IInv'
  <1>0. DaemonTypes /\ LineTypes /\ DeviceTypes
    BY TypeSplit DEF IInv
  <1>1. /\ {NoReply, link.reply, late} \subseteq Replies /\ late' \in Replies /\ r \in Replies
        /\ faults' \in 0 .. MaxFaults
    BY <1>0, LineFacts, FaultType DEF LineTypes, Links
  <1>2. /\ op.at = "deliver" /\ op.kind = "revert" => r = AckClosed
        /\ op.at = "which" => r.is = "state"
        /\ op.at = "readback" /\ op.kind \in {"apply", "revert"} => r.is = "state"
        /\ op.at = "readback" /\ op.kind = "revert" => ActuatorOK(r, FALSE)
    BY GoodFacts
  <1>3. late' = AckClosed => Dead /\ op.kind = "revert" /\ op.at = "deliver"
    BY LineFacts, AckedWhileReverting
  <1>4. CASE /\ op.at = "deliver" /\ op.kind \in {"apply", "revert"}
             /\ Ask([op EXCEPT !.at = "readback"], Stat) /\ UNCHANGED <<ledger, host>>
    <2>1. /\ [op EXCEPT !.at = "readback"] \in Ops
          /\ op' = [op EXCEPT !.at = "readback"]
          /\ op'.kind = op.kind /\ op'.at = "readback" /\ op'.nonce = op.nonce
      BY <1>0, <1>4 DEF DaemonTypes, Ask, Ops, Steps
    <2>2. DaemonTypes'
      BY <1>0, <1>4, <2>1 DEF DaemonTypes
    <2>3. OpOK' /\ NonceOK'
      BY <1>4, <2>1, LineFacts DEF IInv, DriverInv, OpOK, NonceOK
    <2>4. op.kind = "revert" => Dead /\ host = "needs-revert"
      BY <1>2, <1>4, LineFacts, AckedWhileReverting DEF IInv, DriverInv, OpOK, AckMeansDead
    <2>5. LateOK'
      <3>1. link.cmd.is # "STAT"
        BY <1>4 DEF IInv, DriverInv, LinkOK, Asked, Rvk, Cap
      <3>2. late'.is # "state"
        BY <3>1, <1>2, <1>4, LineFacts DEF IInv, DriverInv, LinkOK
      <3> QED
        BY <2>1, <3>2 DEF LateOK
    <2> QED
      BY <1>1, <1>3, <1>4, <2>1, <2>2, <2>3, <2>4, <2>5, AskStatKeeps
  <1>5. CASE op.at = "deliver" /\ op.kind = "renew" /\ Return("open")
    BY <1>1, <1>3, <1>5, ReturnKeeps
  <1>6. CASE op.at = "which" /\ r.nonce = 0 /\ Return("closed")
    BY <1>1, <1>3, <1>6, ReturnKeeps DEF IInv, DriverInv, NonceOK
  <1>7. CASE /\ op.at = "which" /\ r.nonce # 0
             /\ op' = [op EXCEPT !.at = "reserve", !.nonce = r.nonce]
             /\ link' = Quiet /\ UNCHANGED <<ledger, host, sent>>
    <2>1. r.nonce \in Nonces
      BY <1>1, <1>2, <1>7 DEF Replies, AckClosed, Nak, NoReply
    <2>2. op' \in Ops /\ op'.kind = op.kind /\ op'.at = "reserve" /\ op'.nonce = r.nonce
      BY <1>0, <1>7, <2>1 DEF DaemonTypes, Ops, Steps
    <2>3. op.kind = "revert" /\ host = "needs-revert"
      BY <1>7, LineFacts DEF IInv, DriverInv, OpOK
    <2>4. DaemonTypes'
      BY <1>0, <1>7, <2>2 DEF DaemonTypes
    <2>5. OpOK' /\ NonceOK' /\ LateOK'
      BY <1>7, <2>2, <2>3 DEF OpOK, NonceOK, LateOK
    <2> QED
      BY <1>1, <1>3, <1>7, <2>2, <2>4, <2>5, QuietKeeps
  <1>8. CASE op.at = "readback" /\ op.kind \in {"apply", "restore"} /\ Return("open")
    BY <1>1, <1>3, <1>8, ReturnKeeps
  <1>9. CASE /\ op.at = "readback" /\ op.kind = "revert"
             /\ op' = [op EXCEPT !.at = "clear"]
             /\ link' = Quiet /\ UNCHANGED <<ledger, host, sent>>
    <2>1. r = link.reply /\ late' = NoReply
      BY <1>2, <1>9 DEF IInv, DriverInv, LateOK
    <2>2. Dead /\ LoadFine
      BY <1>2, <1>9, <2>1 DEF IInv, DriverInv, AckMeansDead, LoadOK
    <2>3. op' \in Ops /\ op'.kind = op.kind /\ op'.at = "clear" /\ op'.nonce = op.nonce
      BY <1>0, <1>9 DEF DaemonTypes, Ops, Steps
    <2>4. DaemonTypes'
      BY <1>0, <1>9, <2>3 DEF DaemonTypes
    <2>5. OpOK' /\ NonceOK' /\ LateOK'
      BY <1>9, <2>1, <2>3, LineFacts DEF IInv, DriverInv, OpOK, NonceOK, LateOK
    <2> QED
      BY <1>1, <1>3, <1>9, <2>2, <2>3, <2>4, <2>5, QuietKeeps
  <1> QED
    BY <1>4, <1>5, <1>6, <1>7, <1>8, <1>9 DEF Onward

\* A token is numbered, signed and sent.
LEMMA ReserveKeeps ==
    ASSUME IInv, Reserve
    PROVE  IInv'
  <1> DEFINE seq == ledger.next_seq + 1
             c == IF op.kind = "revert" THEN Rvk(op.nonce, seq) ELSE Cap(op.nonce, seq)
  <1>0. /\ DaemonTypes /\ LineTypes /\ DeviceTypes /\ DeviceIdle
        /\ op.at = "reserve" /\ UNCHANGED <<host, late, drawn, renewals, faults>>
        /\ ledger' = [ledger EXCEPT !.next_seq = seq]
        /\ op' = [op EXCEPT !.at = "deliver"]
        /\ link' = [state |-> "sent", cmd |-> c, reply |-> NoReply]
        /\ sent' = sent \union ({c} \ {Stat})
    BY TypeSplit DEF IInv, Reserve, Ask, deviceVars, DeviceIdle
  <1>1. /\ ledger.next_seq \in Nat /\ seq \in Nat
        /\ ledger' \in [next_seq : Nat, open_nonce : Nonces]
        /\ ledger'.next_seq = seq /\ ledger'.open_nonce = ledger.open_nonce
    BY <1>0 DEF DaemonTypes
  <1>2. op' \in Ops /\ op'.kind = op.kind /\ op'.at = "deliver" /\ op'.nonce = op.nonce
    BY <1>0 DEF DaemonTypes, Ops, Steps
  <1>3. op.kind \in {"apply", "renew", "revert"} /\ op.nonce \in Nonces \ {0}
    BY <1>0, LineFacts DEF IInv, DriverInv, OpOK, NonceOK, DaemonTypes, Ops
  <1>4. c \in Tokens(seq) /\ c.nonce = op.nonce /\ c # Stat /\ c.is = (IF op.kind = "revert" THEN "RVK" ELSE "TOK")
    BY <1>1, <1>3 DEF Rvk, Cap, Tokens, Stat
  <1>5. sent' = sent \union {c}
    BY <1>0, <1>4
  <1> HIDE DEF c
  <1>6. link'.state = "sent" /\ link'.cmd = c /\ link'.reply = NoReply /\ link' \in Links'
    BY <1>0, <1>5, LineFacts DEF Links
  <1>7. TypeInv'
    <2>1. DaemonTypes'
      BY <1>0, <1>1, <1>2 DEF DaemonTypes
    <2>2. Tokens(ledger.next_seq) \subseteq Tokens(seq)
      BY <1>1 DEF Tokens
    <2>3. LineTypes'
      BY <1>0, <1>1, <1>4, <1>5, <1>6, <2>2 DEF LineTypes
    <2>4. DeviceTypes'
      <3>1. flash \in [0 .. 1 -> 0 .. seq]
        BY <1>0, <1>1 DEF DeviceTypes
      <3> QED
        BY <1>0, <1>1, <3>1 DEF DeviceTypes, DeviceIdle
    <2> QED
      BY <2>1, <2>3, <2>4, TypeSplit, PTL
  <1>8. BooksOK' /\ Held' /\ (LoadFine => LoadFine')
    BY <1>0, <1>1 DEF IInv, BooksOK, BelowMark, Once, Held, DeviceIdle, LoadFine
  <1>9. \A d : Live(d)' <=> Live(d)
    BY <1>0 DEF Live, DeviceIdle
  <1>10. LiveIsOwn'
    <2>1. Live(c) => c.nonce = ledger.open_nonce
      BY <1>0, <1>3, <1>4 DEF IInv, DriverInv, NonceOK, Live
    <2> QED
      BY <1>1, <1>5, <1>9, <2>1 DEF IInv, LiveIsOwn
  <1>11. op.kind = "revert" /\ Dead => Dead'
    BY <1>0, <1>4, <1>5, <1>9 DEF Dead, Live, DeviceIdle
  <1>12. OpOK' /\ NonceOK' /\ LateOK'
    BY <1>0, <1>1, <1>2, <1>3, LineFacts DEF IInv, DriverInv, OpOK, NonceOK, LateOK
  <1>13. LinkOK'
    <2>1. Asked' = c
      BY <1>1, <1>2, <1>3 DEF Asked, c, Rvk, Cap
    <2> QED
      BY <1>2, <1>6, <2>1, LineFacts DEF LinkOK
  <1>14. AckMeansDead'
    <2>1. late = AckClosed => op.kind = "revert"
      BY <1>0, LineFacts DEF IInv, DriverInv, OpOK, AckMeansDead
    <2> QED
      BY <1>0, <1>2, <1>6, <1>11, <2>1, LineFacts DEF IInv, DriverInv, AckMeansDead
  <1>15. LoadOK'
    BY <1>1, <1>2, <1>8 DEF IInv, LoadOK
  <1> QED
    BY <1>7, <1>8, <1>10, <1>12, <1>13, <1>14, <1>15 DEF IInv, DriverInv

\* A grant is claimed, or a renewal begins.
LEMMA BeginsKeep ==
    ASSUME IInv, Apply \/ Renew
    PROVE  IInv'
  <1>0. /\ DaemonTypes /\ LineTypes /\ DeviceTypes /\ DeviceIdle
        /\ op = NoOp /\ UNCHANGED <<ledger, link, late, sent, faults>>
    BY TypeSplit DEF IInv, Apply, Renew, deviceVars, DeviceIdle
  <1>1. link = Quiet
    BY <1>0, LineFacts DEF IInv, DriverInv, LinkOK
  <1>2. late # AckClosed
    BY DEF IInv, DriverInv, AckMeansDead, Apply, Renew
  <1>3. CASE Apply
    <2>1. drawn + 1 \in Nonces \ {0} /\ drawn' = drawn + 1
      BY <1>0, <1>3, DeviceAssumption DEF DaemonTypes, Apply, Nonces
    <2>2. /\ op' = [kind |-> "apply", at |-> "record", nonce |-> drawn + 1]
          /\ op' \in Ops /\ op'.kind = "apply" /\ op'.at = "record" /\ op'.nonce = drawn + 1
      BY <1>3, <2>1 DEF Apply, Ops, Kinds, Steps
    <2>3. DaemonTypes'
      BY <1>0, <1>3, <2>1, <2>2 DEF DaemonTypes, Apply
    <2>4. ledger.open_nonce = 0 /\ host' = "opening"
      BY <1>3 DEF Apply, IInv, DriverInv, NonceOK
    <2>5. OpOK' /\ NonceOK' /\ LateOK'
      BY <1>0, <2>1, <2>2, <2>4 DEF OpOK, NonceOK, LateOK
    <2> QED
      BY <1>0, <1>1, <1>2, <2>2, <2>3, <2>5, QuietKeeps DEF LineTypes
  <1>4. CASE Renew
    <2>1. ledger.open_nonce \in Nonces \ {0} /\ host' = "open" /\ drawn' = drawn
      BY <1>0, <1>4 DEF DaemonTypes, Renew
    <2>2. /\ op' = [kind |-> "renew", at |-> "reserve", nonce |-> ledger.open_nonce]
          /\ op' \in Ops /\ op'.kind = "renew" /\ op'.at = "reserve" /\ op'.nonce = ledger.open_nonce
      BY <1>4, <2>1 DEF Renew, Ops, Kinds, Steps
    <2>3. DaemonTypes'
      BY <1>0, <1>4, <2>1, <2>2, DeviceAssumption DEF DaemonTypes, Renew
    <2>5. OpOK' /\ NonceOK' /\ LateOK'
      BY <1>0, <2>1, <2>2 DEF OpOK, NonceOK, LateOK
    <2> QED
      BY <1>0, <1>1, <1>2, <2>2, <2>3, <2>5, QuietKeeps DEF LineTypes
  <1> QED
    BY <1>3, <1>4

\* The nonce goes on record, or off it.
LEMMA LedgerKeeps ==
    ASSUME IInv, RecordNonce \/ Clear
    PROVE  IInv'
  <1>0. /\ DaemonTypes /\ LineTypes /\ DeviceTypes /\ DeviceIdle
        /\ UNCHANGED <<host, link, late, sent, drawn, renewals, faults>>
    BY TypeSplit DEF IInv, RecordNonce, Clear, deviceVars, DeviceIdle
  <1> DEFINE n == IF op.at = "record" THEN op.nonce ELSE 0
             next == IF op.at = "record" THEN "reserve" ELSE "close"
  <1>1. /\ op.at \in {"record", "clear"} /\ n \in Nonces
        /\ ledger' = [ledger EXCEPT !.open_nonce = n]
        /\ op' = [op EXCEPT !.at = next]
    BY <1>0, DeviceAssumption DEF RecordNonce, Clear, DaemonTypes, Ops, Nonces
  <1>2. /\ Dead
        /\ op.at = "clear" => LoadFine /\ op.kind = "revert" /\ host = "needs-revert"
        /\ op.at = "record" => op.kind = "apply" /\ host = "opening" /\ op.nonce # 0
    BY <1>1, UnrecordedIsDead, ClearIsDead, LineFacts DEF IInv, DriverInv, OpOK, NonceOK, LoadOK
  <1>3. /\ ledger' \in [next_seq : Nat, open_nonce : Nonces]
        /\ ledger'.next_seq = ledger.next_seq /\ ledger'.open_nonce = n
    BY <1>0, <1>1 DEF DaemonTypes
  <1>4. op' \in Ops /\ op'.kind = op.kind /\ op'.at = next /\ op'.nonce = op.nonce
    BY <1>0, <1>1 DEF DaemonTypes, Ops, Steps
  <1>5. TypeInv'
    <2>1. DaemonTypes' /\ LineTypes' /\ DeviceTypes'
      BY <1>0, <1>3, <1>4 DEF DaemonTypes, LineTypes, Links, DeviceTypes, DeviceIdle
    <2> QED
      BY <2>1, TypeSplit, PTL
  <1>6. BooksOK' /\ Dead' /\ (LoadFine <=> LoadFine')
    BY <1>0, <1>2, IdleFrame
  <1>7. Held' /\ LiveIsOwn'
    BY <1>6 DEF Dead, Held, LiveIsOwn
  <1>8. OpOK' /\ NonceOK'
    BY <1>0, <1>1, <1>2, <1>3, <1>4 DEF IInv, DriverInv, OpOK, NonceOK
  <1>9. LateOK' /\ LinkOK'
    BY <1>0, <1>1, <1>4, LineFacts DEF IInv, DriverInv, LateOK, LinkOK
  <1>10. AckMeansDead'
    BY <1>0, <1>4, <1>6 DEF IInv, DriverInv, AckMeansDead
  <1>11. LoadOK'
    <2>1. n = 0 => op.at = "clear"
      BY <1>1, <1>2
    <2> QED
      BY <1>2, <1>3, <1>4, <1>6, <2>1 DEF LoadOK
  <1> QED
    BY <1>5, <1>6, <1>7, <1>8, <1>9, <1>10, <1>11 DEF IInv, DriverInv

LEMMA RestoreKeeps ==
    ASSUME IInv, Restore
    PROVE  IInv'
  <1> DEFINE o == [kind |-> "restore", at |-> "readback", nonce |-> ledger.open_nonce]
  <1>0. /\ DaemonTypes /\ LineTypes /\ DeviceTypes /\ DeviceIdle
        /\ host = "restoring" /\ UNCHANGED <<ledger, host, late, drawn, renewals, faults>>
        /\ Ask(o, Stat)
    BY TypeSplit DEF IInv, Restore, deviceVars, DeviceIdle
  <1>1. o \in Ops /\ o.kind = "restore" /\ o.at = "readback" /\ o.nonce = ledger.open_nonce /\ op' = o
    BY <1>0 DEF DaemonTypes, Ops, Kinds, Steps, Ask
  <1> HIDE DEF o
  <1>2. DaemonTypes'
    BY <1>0, <1>1 DEF DaemonTypes
  <1>3. OpOK' /\ NonceOK' /\ LateOK'
    BY <1>0, <1>1 DEF OpOK, NonceOK, LateOK
  <1>4. late # AckClosed /\ late \in Replies
    BY <1>0 DEF IInv, DriverInv, AckMeansDead, LineTypes
  <1> QED
    BY <1>0, <1>1, <1>2, <1>3, <1>4, AskStatKeeps

LEMMA CrashKeeps ==
    ASSUME IInv, Crash
    PROVE  IInv'
  <1>0. /\ DaemonTypes /\ LineTypes /\ DeviceTypes /\ DeviceIdle
        /\ UNCHANGED <<ledger, late, sent, drawn, renewals>>
        /\ op' = NoOp /\ link' = Quiet /\ faults' \in 0 .. MaxFaults
    BY TypeSplit, FaultType DEF IInv, Crash, deviceVars, DeviceIdle, LineTypes
  <1>1. /\ host' \in {"closed", "opening", "open", "restoring", "needs-revert"}
        /\ host' = "closed" => host = "closed"
        /\ host = "needs-revert" => host' = "needs-revert"
    BY <1>0 DEF Crash, DaemonTypes
  <1>2. TypeInv'
    <2>1. DaemonTypes' /\ LineTypes'
      BY <1>0, <1>1, LineFacts DEF DaemonTypes, LineTypes, Links
    <2>2. DeviceTypes'
      BY <1>0, IdleFrame
    <2> QED
      BY <2>1, <2>2, TypeSplit, PTL
  <1>3. OpOK' /\ NonceOK' /\ LateOK' /\ LinkOK'
    BY <1>0, <1>1, LineFacts DEF IInv, DriverInv, OpOK, NonceOK, LateOK, LinkOK
  <1>4. AckMeansDead' /\ LoadOK'
    BY <1>0, <1>1, LineFacts, IdleFrame DEF IInv, DriverInv, AckMeansDead, LoadOK
  <1> QED
    BY <1>0, <1>2, <1>3, <1>4, IdleFrame DEF IInv, DriverInv

\* Every step of the driver that hears something, or fails.
LEMMA HearingKeeps ==
    ASSUME IInv, TakeReply \/ TakeLate \/ TimeOut \/ LedgerFails
    PROVE  IInv'
  <1>0. DeviceIdle /\ UNCHANGED <<drawn, renewals>> /\ (Fault \/ UNCHANGED faults)
    BY DEF TakeReply, TakeLate, TimeOut, LedgerFails, deviceVars, DeviceIdle
  <1>1. CASE TimeOut \/ LedgerFails
    BY <1>0, <1>1, FailKeeps DEF TimeOut, LedgerFails
  <1>2. CASE TakeReply
    <2>1. Hear(link.reply) /\ late' = NoReply /\ link.state # "idle"
      BY <1>2 DEF TakeReply
    <2>2. CASE Good(link.reply)
      BY <1>0, <2>1, <2>2, OnwardKeeps DEF Hear
    <2>3. CASE ~Good(link.reply)
      BY <1>0, <2>1, <2>3, FailKeeps DEF Hear
    <2> QED
      BY <2>2, <2>3
  <1>3. CASE TakeLate
    <2>1. Hear(late) /\ late' \in {NoReply, link.reply} /\ link.state # "idle"
      BY <1>3 DEF TakeLate
    <2>2. CASE Good(late)
      BY <1>0, <2>1, <2>2, OnwardKeeps DEF Hear
    <2>3. CASE ~Good(late)
      BY <1>0, <2>1, <2>3, FailKeeps DEF Hear
    <2> QED
      BY <2>2, <2>3
  <1> QED
    BY <1>1, <1>2, <1>3

\* revert begins, and ends.
LEMMA RevertKeeps ==
    ASSUME IInv, Revert \/ Close
    PROVE  IInv'
  <1>0. /\ DeviceIdle /\ UNCHANGED <<late, drawn, renewals>> /\ (Fault \/ UNCHANGED faults)
        /\ late \in Replies
    BY TypeSplit DEF Revert, Close, deviceVars, DeviceIdle, IInv, LineTypes
  <1>1. CASE Revert
    BY <1>0, <1>1, BeginRevertKeeps DEF Revert, IInv, DriverInv, AckMeansDead
  <1>2. CASE Close
    <2>1. ledger.open_nonce = 0 /\ late # AckClosed
      BY <1>2 DEF Close, IInv, DriverInv, NonceOK, LateOK
    <2> QED
      BY <1>0, <1>2, <2>1, ReturnKeeps DEF Close
  <1> QED
    BY <1>1, <1>2

\* The steps of the device and of the line around it.
LEMMA PowerKeeps ==
    ASSUME IInv, Tick \/ Reboot \/ PowerCut \/ Stick \/ Free \/ Redeliver, erased' = FALSE
    PROVE  IInv'
  <1>0. /\ UNCHANGED <<daemonVars, link, late, sent>> /\ UNCHANGED ledger
        /\ Fault \/ UNCHANGED faults
        /\ TypeInv /\ BooksOK
    BY DEF Tick, Reboot, PowerCut, Stick, Free, Redeliver, daemonVars, IInv
  <1>1. DeviceMoves /\ DeviceBooks
    <2>1. CASE Tick
      BY <1>0, <2>1, TickMoves
    <2>2. CASE Stick \/ Free
      BY <1>0, <2>2, RelayMoves
    <2>3. CASE Reboot \/ PowerCut
      <3>1. Boot /\ UNCHANGED <<sent, anchored>>
        BY <2>3 DEF Reboot, PowerCut
      <3>2. UNCHANGED <<flash, erased>> \/ \E c \in sent : Fresh(c) /\ Interrupted(c.seq)
        BY <2>3 DEF Reboot, PowerCut, Accepts, Revokes
      <3> QED
        BY <1>0, <3>1, <3>2, BootMoves
    <2>4. CASE Redeliver
      BY <1>0, <2>4, LineMoves DEF Redeliver
    <2> QED
      BY <2>1, <2>2, <2>3, <2>4
  <1> QED
    BY <1>0, <1>1, DeviceKeeps

LEMMA Inductive ==
    ASSUME IInv, [Next]_vars, erased' = FALSE
    PROVE  IInv'
  <1>1. CASE UNCHANGED vars
    <2>1. /\ UNCHANGED <<daemonVars, link, late, sent, faults>>
          /\ UNCHANGED <<ledger, host, op, link, late, sent, device, flash, relay, anchored, erased,
                         drawn, renewals, faults>>
      BY <1>1 DEF vars, daemonVars
    <2>2. DeviceTypes /\ DaemonTypes /\ BooksOK
      BY TypeSplit DEF IInv
    <2>3. read_mark(flash) \in Nat
      BY <2>2, MarkType DEF DaemonTypes, DeviceTypes
    <2>4. DeviceMoves /\ DeviceBooks
      BY <2>1, <2>2, <2>3
      DEF DeviceMoves, DeviceBooks, DeviceTypes, BooksOK, BelowMark, Once, LoadFine
    <2> QED
      BY <2>1, <2>4, DeviceKeeps
  <1>2. CASE Next
    BY <1>2, BeginsKeep, LedgerKeeps, RestoreKeeps, CrashKeeps, HearingKeeps, RevertKeeps,
       PowerKeeps, ReserveKeeps, DeliverKeeps, StoreFailsKeeps
    DEF Next, Driver
  <1> QED
    BY <1>1, <1>2

(***************************************************************************)
(* Theorems.                                                                *)
(***************************************************************************)
\* An empty sector is not forgotten.
LEMMA ErasedStays ==
    ASSUME erased = TRUE, [Next]_vars
    PROVE  erased' = TRUE
  <1>1. \A seq : Interrupted(seq) => erased' = TRUE
    BY DEF Interrupted
  <1>2. CASE UNCHANGED vars
    BY <1>2 DEF vars
  <1>3. CASE \/ Apply \/ Renew \/ Driver \/ TimeOut \/ LedgerFails \/ Crash
             \/ Tick \/ Reboot \/ Stick \/ Free
    BY <1>3 DEF Apply, Renew, Driver, TimeOut, LedgerFails, Crash, Tick, Reboot, Stick, Free,
       RecordNonce, Revert, Restore, Reserve, TakeReply, TakeLate, Clear, Close, deviceVars
  <1>4. CASE Deliver \/ Redeliver
    BY <1>4 DEF Deliver, Redeliver, HandleLine, Anchor, Revoke, deviceVars
  <1>5. CASE StoreFails \/ PowerCut
    BY <1>1, <1>5 DEF StoreFails, PowerCut
  <1> QED
    BY <1>2, <1>3, <1>4, <1>5 DEF Next

\* The inductive invariant of the driver, the line and the engine.
LEMMA Invariant == Spec => [](IInv \/ erased = TRUE)
  <1>1. Init => IInv
    <2> SUFFICES ASSUME Init PROVE IInv
      OBVIOUS
    <2>1. /\ ledger \in [next_seq : Nat, open_nonce : Nonces]
          /\ ledger.next_seq = 0 /\ ledger.open_nonce = 0
      BY DeviceAssumption DEF Init, Nonces
    <2>2. DaemonTypes
      BY <2>1, LineFacts, DeviceAssumption DEF Init, DaemonTypes, Nonces
    <2>3. LineTypes
      BY LineFacts, DeviceAssumption DEF Init, LineTypes, Links
    <2>4. device.nonce = 0 /\ device.left = 0 /\ device.reason = "boot"
      BY DEF Init, Booted
    <2>5. /\ relay \in [load : BOOLEAN, energized : BOOLEAN, stuck : BOOLEAN]
          /\ relay.load = relay.energized
      BY DEF Init
    <2>11. erased = FALSE /\ erased \in BOOLEAN
      BY DEF Init
    <2>6. DeviceTypes
      BY <2>1, <2>4, <2>5, <2>11, DeviceAssumption DEF Init, DeviceTypes, Booted, Nonces, Reasons
    <2>7. TypeInv
      BY <2>2, <2>3, <2>6, TypeSplit
    <2>8. BooksOK
      BY DEF Init, BooksOK, BelowMark, Once
    <2>9. Held /\ LiveIsOwn /\ LoadOK
      BY <2>4, <2>5 DEF Init, Held, LiveIsOwn, LoadOK, LoadFine, Quiet, NoReply, NoOp
    <2>10. DriverInv
      BY <2>1, LineFacts DEF Init, DriverInv, OpOK, NonceOK, LinkOK, AckMeansDead, LateOK
    <2> QED
      BY <2>7, <2>8, <2>9, <2>10 DEF IInv
  <1>2. ASSUME IInv \/ erased = TRUE, [Next]_vars
        PROVE  (IInv \/ erased = TRUE)'
    <2>1. erased = TRUE => erased' = TRUE
      BY <1>2, ErasedStays
    <2>2. IInv => erased' \in BOOLEAN
      <3>1. IInv => erased = FALSE
        BY DEF IInv, BooksOK
      <3>2. erased' = erased \/ \E seq : Interrupted(seq)
        BY <1>2 DEF Next, vars, Apply, Renew, Driver, TimeOut, LedgerFails, Crash, Tick, Reboot,
           Stick, Free, RecordNonce, Revert, Restore, Reserve, TakeReply, TakeLate, Clear, Close,
           deviceVars, Deliver, Redeliver, HandleLine, Anchor, Revoke, StoreFails, PowerCut
      <3>3. (\E seq : Interrupted(seq)) => erased' \in BOOLEAN
        BY DEF Interrupted
      <3> QED
        BY <3>1, <3>2, <3>3
    <2>3. IInv /\ erased' = FALSE => IInv'
      BY <1>2, Inductive
    <2> QED
      BY <1>2, <2>1, <2>2, <2>3
  <1> QED
    BY <1>1, <1>2, PTL DEF Spec

\* Until an interrupted write of the mark leaves the flash sector empty, a device
\* never holds a grant that device_state.rs has no record of, so that revert()
\* always names the right one, whatever crashes, losses, duplicates, late replies
\* and half-written marks come between.
THEOREM GrantIsOwn == Spec => []OwnGrant
  <1>1. IInv \/ erased = TRUE => OwnGrant
    BY DEF IInv, Held, OwnGrant
  <1> QED
    BY <1>1, Invariant, PTL

\* Under the same proviso, while the daemon records the host closed the device
\* is closed, and no token that revert() left behind can open it.
THEOREM ClosedStaysClosed == Spec => []ClosedIsClosed
  <1>1. IInv \/ erased = TRUE => ClosedIsClosed
    BY DEF IInv, Held, DriverInv, NonceOK, ClosedIsClosed
  <1> QED
    BY <1>1, Invariant, PTL

\* accept_token() anchors a deadline once per token, across reboots and writes of
\* the mark that lose one of the two slots; a write that loses both is what
\* MarkSurvives is about, and is left out here.
THEOREM TokenAnchorsOnce == Spec => []AnchorsOnce
  <1>1. IInv \/ erased = TRUE => AnchorsOnce
    BY DEF IInv, BooksOK, Once, AnchorsOnce
  <1> QED
    BY <1>1, Invariant, PTL

\* With the mark not lost, revert() returns Ok only with the load off, but for an
\* energized fail-state after a boot: a read-back that a late report answers is
\* never believed.
THEOREM RevertLeavesLoadOff == Spec => LoadIsOff
  <1>1. ASSUME IInv', host # "closed", host' = "closed", relay'.load
        PROVE  device'.reason = "boot" /\ relay'.energized
    <2>1. ledger'.open_nonce = 0
      BY <1>1 DEF IInv, DriverInv, NonceOK
    <2>2. LoadFine'
      BY <1>1, <2>1 DEF IInv, LoadOK
    <2> QED
      BY <1>1, <2>2 DEF LoadFine
  <1>2. (IInv \/ erased = TRUE)' =>
          [host # "closed" /\ host' = "closed" /\ relay'.load /\ ~erased'
              => device'.reason = "boot" /\ relay'.energized]_vars
    BY <1>1
  <1> QED
    BY <1>2, Invariant, PTL DEF LoadIsOff
=============================================================================
