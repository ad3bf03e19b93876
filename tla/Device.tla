------------------------------- MODULE Device -------------------------------
(***************************************************************************)
(* A grant that the device itself enforces: the daemon's device driver      *)
(* (daemon/src/drivers/device.rs) with its ledger (device_state.rs), the    *)
(* line between the two, and the device: the engine of embed/src/lib.rs     *)
(* over the two flash slots of the reference firmware, with the relay and   *)
(* the load sense of an actuator.                                           *)
(*                                                                          *)
(* Either side may lose power between any two steps.  A command or a reply  *)
(* may be lost; a reply may arrive during a later transaction; any token    *)
(* that was ever sent may arrive (again) at any time.  Signatures are       *)
(* unforgeable.  Time is what is left of the device's countdown.            *)
(***************************************************************************)
EXTENDS Naturals, Sequences, FiniteSets

CONSTANTS
    TTL,            \* seconds a capability asks for
    MaxGrants,      \* bound: grant nonces drawn
    MaxRenewals,    \* bound: renewals
    MaxFaults       \* bound: losses, crashes, reboots, failed writes

ASSUME DeviceAssumption ==
    /\ TTL \in Nat \ {0}
    /\ {MaxGrants, MaxRenewals, MaxFaults} \subseteq Nat

VARIABLES
    ledger,     \* device-state.json: the last seq reserved, the open nonce
    host,       \* what the daemon holds the host's grant to be
    op,         \* the driver call in progress
    link,       \* the transaction in progress
    late,       \* a reply that missed its transaction
    sent,       \* every token put on the line
    device,     \* the engine, in RAM: the grant, its time left, the last close
    flash,      \* the two slots of the anti-replay mark; 0 does not decode
    relay,      \* the load, the fail-state, and whether the relay is stuck
    anchored,   \* ghost: the seq of each acceptance that set a deadline, until erased
    erased,     \* ghost: an interrupted write has left the sector empty
    drawn,      \* nonces drawn
    renewals,
    faults

daemonVars == <<ledger, host, op, drawn, renewals>>
deviceVars == <<device, flash, relay, anchored, erased>>
vars == <<ledger, host, op, link, late, sent, device, flash, relay, anchored, erased,
          drawn, renewals, faults>>

(***************************************************************************)
(* Lines.  Nonce 0 is none.                                                 *)
(***************************************************************************)
Cap(nonce, seq) == [is |-> "TOK", nonce |-> nonce, seq |-> seq]
Rvk(nonce, seq) == [is |-> "RVK", nonce |-> nonce, seq |-> seq]
Stat == [is |-> "STAT", nonce |-> 0, seq |-> 0]

AckOpen(nonce, left) == [is |-> "ack", nonce |-> nonce, left |-> left]
AckClosed == [is |-> "closed"]
Nak == [is |-> "nak"]
NoReply == [is |-> "none"]
Report == [is |-> "state", nonce |-> device.nonce, left |-> device.left,
           load |-> relay.load, reason |-> device.reason]

Nonces == 0 .. MaxGrants
Reasons == {"none", "revert", "expiry", "boot"}
Replies ==
    {AckClosed, Nak, NoReply}
        \union [is : {"ack"}, nonce : Nonces, left : 0 .. TTL]
        \union [is : {"state"}, nonce : Nonces, left : 0 .. TTL, load : BOOLEAN, reason : Reasons]

NoOp == [kind |-> "none", at |-> "none", nonce |-> 0]
Quiet == [state |-> "idle", cmd |-> Stat, reply |-> NoReply]

\* The engine holds a grant exactly while time is left; what is on the line
\* is a token of the ledger's making.
TypeOK ==
    /\ ledger \in [next_seq : Nat, open_nonce : Nonces]
    /\ host \in {"closed", "opening", "open", "restoring", "needs-revert"}
    /\ op \in [kind : {"none", "apply", "renew", "revert", "restore"},
               at : {"none", "record", "reserve", "deliver", "which", "readback", "clear", "close"},
               nonce : Nonces]
    /\ link.state \in {"idle", "sent", "answered"}
    /\ link.cmd \in sent \union {Stat}
    /\ {link.reply, late} \subseteq Replies
    /\ sent \subseteq [is : {"TOK", "RVK"}, nonce : Nonces \ {0}, seq : 1 .. ledger.next_seq]
    /\ device \in [nonce : Nonces, left : 0 .. TTL, reason : Reasons]
    /\ device.nonce # 0 <=> device.left > 0
    /\ flash \in [0 .. 1 -> 0 .. ledger.next_seq]
    /\ relay \in [load : BOOLEAN, energized : BOOLEAN, stuck : BOOLEAN]
    /\ erased \in BOOLEAN
    /\ drawn \in Nonces
    /\ renewals \in 0 .. MaxRenewals
    /\ faults \in 0 .. MaxFaults

Booted == [nonce |-> 0, left |-> 0, reason |-> "boot"]

Init ==
    /\ ledger = [next_seq |-> 0, open_nonce |-> 0]
    /\ host = "closed"
    /\ op = NoOp
    /\ link = Quiet
    /\ late = NoReply
    /\ sent = {}
    /\ device = Booted
    /\ flash = [i \in 0 .. 1 |-> 0]
    /\ \E e \in BOOLEAN : relay = [load |-> e, energized |-> e, stuck |-> FALSE]
    /\ anchored = <<>>
    /\ erased = FALSE
    /\ drawn = 0
    /\ renewals = 0
    /\ faults = 0

Fault == faults < MaxFaults /\ faults' = faults + 1

(***************************************************************************)
(* The firmware's flash record: two slots of one sector, the better one     *)
(* never the target of a write.  The storage library writes by reading the  *)
(* sector, erasing it and programming it again.                             *)
(***************************************************************************)
read_mark(slots) == IF slots[0] >= slots[1] THEN slots[0] ELSE slots[1]

\* Mutant: the slot that holds the current mark is the one overwritten.
WriteBest(slots) == IF slots[0] >= slots[1] THEN 0 ELSE 1
write_plan(slots) == IF slots[0] # 0 /\ slots[0] >= slots[1] THEN 1 ELSE 0

Stored(seq) == [flash EXCEPT ![write_plan(flash)] = seq]

\* A write of the mark that does not run to its end, or whose end is not seen:
\* of the erased sector these slots were programmed whole, and the others do
\* not decode.
Interrupted(seq) ==
    \E whole \in SUBSET (0 .. 1) :
        /\ flash' = [i \in 0 .. 1 |-> IF i \in whole THEN Stored(seq)[i] ELSE 0]
        /\ erased' = (erased \/ whole = {})

(***************************************************************************)
(* The engine                                                               *)
(***************************************************************************)
\* A healthy relay follows the gate, a stuck one holds.
Driven(open) == [relay EXCEPT !.load = IF relay.stuck THEN @ ELSE open]

\* The seq must pass the mark.
Fresh(c) == c.seq > read_mark(flash)

\* The current token again: acknowledged, without a new deadline.
Redelivery(c) == device.nonce = c.nonce /\ c.seq = read_mark(flash)

\* Mutant: the seq is looked at only while a grant is open.
AcceptsWhenClosed(c) ==
    c.is = "TOK" /\ (device.nonce = 0 \/ (device.nonce = c.nonce /\ Fresh(c)))
\* accept_token: a new grant is refused while one is open, an old seq always.
Accepts(c) == c.is = "TOK" /\ device.nonce \in {0, c.nonce} /\ Fresh(c)

\* The mark is stored before the deadline is anchored.
Anchor(c) ==
    /\ flash' = Stored(c.seq)
    /\ device' = [nonce |-> c.nonce, left |-> TTL, reason |-> "none"]
    /\ relay' = Driven(TRUE)
    /\ anchored' = IF erased THEN anchored ELSE Append(anchored, c.seq)
    /\ UNCHANGED erased

\* accept_revocation: a fresh one moves the mark even when it names a grant
\* that is not open.
Revokes(c) == c.is = "RVK" /\ Fresh(c)
Revoke(c) ==
    /\ flash' = Stored(c.seq)
    /\ IF device.nonce = c.nonce
       THEN /\ device' = [nonce |-> 0, left |-> 0, reason |-> "revert"]
            /\ relay' = Driven(FALSE)
       ELSE UNCHANGED <<device, relay>>
    /\ UNCHANGED <<anchored, erased>>

\* handle_line: what a command does, and what is answered.
HandleLine(c) ==
    \/ Accepts(c) /\ Anchor(c)
    \/ Revokes(c) /\ Revoke(c)
    \/ ~Accepts(c) /\ ~Revokes(c) /\ UNCHANGED deviceVars

Answer(c) ==
    CASE c.is = "STAT" -> Report
      [] Accepts(c) -> AckOpen(c.nonce, TTL)
      [] c.is = "TOK" /\ Redelivery(c) /\ ~Accepts(c) -> AckOpen(device.nonce, device.left)
      [] Revokes(c) /\ device.nonce \in {0, c.nonce} -> AckClosed
      [] OTHER -> Nak

\* Power comes back: RAM is gone, the load is at the fail-state.
Boot ==
    /\ device' = Booted
    /\ relay' = [relay EXCEPT !.load = relay.energized, !.stuck = FALSE]

Reboot ==
    /\ Fault
    /\ Boot
    /\ UNCHANGED <<daemonVars, link, late, sent, flash, anchored, erased>>

\* Power fails while the mark of a token is written, or right after.
PowerCut ==
    /\ Fault
    /\ \E c \in sent : (Accepts(c) \/ Revokes(c)) /\ Interrupted(c.seq)
    /\ Boot
    /\ UNCHANGED <<daemonVars, link, late, sent, anchored>>

\* Mutant: expiry is noticed only when a line arrives.
TickWhenAsked ==
    /\ device.left > 0 /\ link.state = "sent"
    /\ device' = IF device.left = 1 THEN [nonce |-> 0, left |-> 0, reason |-> "expiry"]
                 ELSE [device EXCEPT !.left = @ - 1]
    /\ relay' = IF device.left = 1 THEN Driven(FALSE) ELSE relay
    /\ UNCHANGED <<daemonVars, link, late, sent, flash, anchored, erased, faults>>

\* tick: the gate drops at the deadline, whether or not a line arrives.
Tick ==
    /\ device.left > 0
    /\ \/ /\ device.left > 1
          /\ device' = [device EXCEPT !.left = @ - 1]
          /\ UNCHANGED relay
       \/ /\ device.left = 1
          /\ device' = [nonce |-> 0, left |-> 0, reason |-> "expiry"]
          /\ relay' = Driven(FALSE)
    /\ UNCHANGED <<daemonVars, link, late, sent, flash, anchored, erased, faults>>

Stick ==
    /\ Fault
    /\ ~relay.stuck
    /\ relay' = [relay EXCEPT !.stuck = TRUE]
    /\ UNCHANGED <<daemonVars, link, late, sent, device, flash, anchored, erased>>

\* A freed relay snaps to what the gate commands.
Free ==
    /\ relay.stuck
    /\ relay' = [relay EXCEPT !.load = device.nonce # 0, !.stuck = FALSE]
    /\ UNCHANGED <<daemonVars, link, late, sent, device, flash, anchored, erased, faults>>

(***************************************************************************)
(* The line                                                                 *)
(***************************************************************************)
Deliver ==
    /\ link.state = "sent"
    /\ HandleLine(link.cmd)
    /\ link' = [link EXCEPT !.state = "answered", !.reply = Answer(link.cmd)]
    /\ UNCHANGED <<daemonVars, late, sent, faults>>

\* A mark that cannot be read or written refuses the token.  A write that
\* reports an error may have got anywhere.
StoreFails ==
    /\ link.state = "sent" /\ link.cmd # Stat
    /\ Fault
    /\ link' = [link EXCEPT !.state = "answered", !.reply = Nak]
    /\ \/ UNCHANGED <<flash, erased>>
       \/ (Accepts(link.cmd) \/ Revokes(link.cmd)) /\ Interrupted(link.cmd.seq)
    /\ UNCHANGED <<daemonVars, device, relay, anchored, late, sent>>

\* A token that was captured, duplicated or delayed: of one in flight, the
\* first copy to arrive is the one answered.
Redeliver ==
    /\ \E c \in sent \ (IF link.state = "sent" THEN {link.cmd} ELSE {}) :
          (Accepts(c) \/ Revokes(c)) /\ HandleLine(c)
    /\ UNCHANGED <<daemonVars, link, late, sent, faults>>

(***************************************************************************)
(* The driver                                                               *)
(***************************************************************************)
Ask(o, cmd) ==
    /\ op' = o
    /\ link' = [state |-> "sent", cmd |-> cmd, reply |-> NoReply]
    /\ sent' = sent \union ({cmd} \ {Stat})

Return(state) ==
    /\ host' = state
    /\ op' = NoOp
    /\ link' = Quiet
    /\ UNCHANGED <<ledger, sent>>

\* A nonce is drawn; the grant is on record as opening.
Apply ==
    /\ host = "closed" /\ op = NoOp
    /\ drawn < MaxGrants
    /\ drawn' = drawn + 1
    /\ host' = "opening"
    /\ op' = [kind |-> "apply", at |-> "record", nonce |-> drawn + 1]
    /\ UNCHANGED <<ledger, link, late, sent, deviceVars, renewals, faults>>

\* Mutant: the nonce is recorded once the device has accepted the token.
RecordLater ==
    /\ op.at = "record"
    /\ op' = [op EXCEPT !.at = "reserve"]
    /\ UNCHANGED <<ledger, host, link, late, sent, deviceVars, drawn, renewals, faults>>

\* set_open_nonce: the nonce is on disk before the token exists.
RecordNonce ==
    /\ op.at = "record"
    /\ ledger' = [ledger EXCEPT !.open_nonce = op.nonce]
    /\ op' = [op EXCEPT !.at = "reserve"]
    /\ UNCHANGED <<host, link, late, sent, deviceVars, drawn, renewals, faults>>

Renew ==
    /\ host = "open" /\ op = NoOp
    /\ ledger.open_nonce # 0
    /\ renewals < MaxRenewals
    /\ renewals' = renewals + 1
    /\ op' = [kind |-> "renew", at |-> "reserve", nonce |-> ledger.open_nonce]
    /\ UNCHANGED <<ledger, host, link, late, sent, deviceVars, drawn, faults>>

\* revert names the recorded nonce, or else asks the device for its own.
BeginRevert ==
    /\ host' = "needs-revert"
    /\ IF ledger.open_nonce # 0
       THEN /\ op' = [kind |-> "revert", at |-> "reserve", nonce |-> ledger.open_nonce]
            /\ link' = Quiet
            /\ UNCHANGED sent
       ELSE Ask([kind |-> "revert", at |-> "which", nonce |-> 0], Stat)
    /\ UNCHANGED ledger

\* The device holds a grant that the ledger does not name: it refuses every
\* revocation the daemon can sign until the deadline.
Estranged == ledger.open_nonce # 0 /\ device.nonce \notin {0, ledger.open_nonce}

\* close, expiry, or the reap loop's next attempt; an attempt while the relay is
\* stuck or the device estranged is counted as a fault (a bound).
Revert ==
    /\ host \in {"open", "needs-revert"} /\ op = NoOp
    /\ BeginRevert
    /\ IF relay.stuck \/ Estranged THEN Fault ELSE UNCHANGED faults
    /\ UNCHANGED <<late, deviceVars, drawn, renewals>>

\* reestablish, after a restart with the grant open on record.
Restore ==
    /\ host = "restoring" /\ op = NoOp
    /\ Ask([kind |-> "restore", at |-> "readback", nonce |-> ledger.open_nonce], Stat)
    /\ UNCHANGED <<ledger, host, late, deviceVars, drawn, renewals, faults>>

\* Mutant: a revocation is signed with the number of the last token.
ReserveForTokens ==
    /\ op.at = "reserve"
    /\ IF op.kind = "revert"
       THEN Ask([op EXCEPT !.at = "deliver"], Rvk(op.nonce, ledger.next_seq)) /\ UNCHANGED ledger
       ELSE /\ ledger' = [ledger EXCEPT !.next_seq = @ + 1]
            /\ Ask([op EXCEPT !.at = "deliver"], Cap(op.nonce, ledger.next_seq + 1))
    /\ UNCHANGED <<host, late, deviceVars, drawn, renewals, faults>>

\* next_cap and next_rvk: the seq is reserved durably, then signed and sent.
Reserve ==
    /\ op.at = "reserve"
    /\ LET seq == ledger.next_seq + 1
       IN  /\ ledger' = [ledger EXCEPT !.next_seq = seq]
           /\ Ask([op EXCEPT !.at = "deliver"],
                  IF op.kind = "revert" THEN Rvk(op.nonce, seq) ELSE Cap(op.nonce, seq))
    /\ UNCHANGED <<host, late, deviceVars, drawn, renewals, faults>>

\* check_actuator: the load agrees with the grant, but for a load that is on
\* because its fail-state is energized and the device has just booted.
ActuatorOK(r, open) ==
    r.load = open \/ (~open /\ r.reason = "boot" /\ relay.energized)

\* What each step needs to hear to go on.
Good(r) ==
    CASE op.at = "deliver" /\ op.kind # "revert" ->
            r.is = "ack" /\ r.nonce = op.nonce /\ r.left \in 1 .. TTL
      [] op.at = "deliver" /\ op.kind = "revert" -> r = AckClosed
      [] op.at = "which" -> r.is = "state"
      [] op.at = "readback" /\ op.kind = "apply" ->
            r.is = "state" /\ ActuatorOK(r, TRUE) /\ r.nonce = op.nonce /\ r.left > 0
      [] op.at = "readback" /\ op.kind = "restore" ->
            r.is = "state" /\ r.nonce = op.nonce /\ r.left > 0
      [] op.at = "readback" /\ op.kind = "revert" ->
            r.is = "state" /\ ActuatorOK(r, FALSE) /\ r.nonce = 0

\* Mutant: an acknowledged revocation is believed without reading back.
OnwardTrusting(r) ==
    \/ /\ op.at = "deliver" /\ op.kind = "apply"
       /\ Ask([op EXCEPT !.at = "readback"], Stat) /\ UNCHANGED <<ledger, host>>
    \/ op.at = "deliver" /\ op.kind = "renew" /\ Return("open")
    \/ op.at = "which" /\ r.nonce = 0 /\ Return("closed")
    \/ /\ op.at = "which" /\ r.nonce # 0
       /\ op' = [op EXCEPT !.at = "reserve", !.nonce = r.nonce]
       /\ link' = Quiet /\ UNCHANGED <<ledger, host, sent>>
    \/ op.at = "readback" /\ op.kind \in {"apply", "restore"} /\ Return("open")
    \/ /\ op.kind = "revert" /\ op.at \in {"deliver", "readback"}
       /\ op' = [op EXCEPT !.at = "clear"]
       /\ link' = Quiet /\ UNCHANGED <<ledger, host, sent>>

\* And what it then does.
Onward(r) ==
    \/ /\ op.at = "deliver" /\ op.kind \in {"apply", "revert"}
       /\ Ask([op EXCEPT !.at = "readback"], Stat) /\ UNCHANGED <<ledger, host>>
    \/ op.at = "deliver" /\ op.kind = "renew" /\ Return("open")
    \/ op.at = "which" /\ r.nonce = 0 /\ Return("closed")
    \/ /\ op.at = "which" /\ r.nonce # 0
       /\ op' = [op EXCEPT !.at = "reserve", !.nonce = r.nonce]
       /\ link' = Quiet /\ UNCHANGED <<ledger, host, sent>>
    \/ op.at = "readback" /\ op.kind \in {"apply", "restore"} /\ Return("open")
    \/ /\ op.at = "readback" /\ op.kind = "revert"
       /\ op' = [op EXCEPT !.at = "clear"]
       /\ link' = Quiet /\ UNCHANGED <<ledger, host, sent>>

\* An error: a failed apply is unwound by a revert, a failed renewal leaves
\* the grant as it was, the others are tried again.
Fail ==
    \/ op.kind = "apply" /\ BeginRevert
    \/ op.kind = "renew" /\ Return("open")
    \/ op.kind \in {"revert", "restore"} /\ Return("needs-revert")

Hear(r) == IF Good(r) THEN Onward(r) ELSE Fail

\* The line keeps its order: who hears the answer has missed any older one.
TakeReply ==
    /\ link.state = "answered"
    /\ Hear(link.reply)
    /\ late' = NoReply
    /\ UNCHANGED <<deviceVars, drawn, renewals, faults>>

\* An older answer is taken for this one, which comes too late in turn or is
\* dropped when the port is closed.
TakeLate ==
    /\ link.state # "idle" /\ late # NoReply
    /\ Hear(late)
    /\ \/ late' = NoReply /\ UNCHANGED faults
       \/ link.state = "answered" /\ late' = link.reply /\ Fault
    /\ UNCHANGED <<deviceVars, drawn, renewals>>

\* No answer within the budget: it was lost, or is yet to come.
TimeOut ==
    /\ link.state # "idle"
    /\ Fault
    /\ Fail
    /\ late' \in {NoReply, link.reply}
    /\ UNCHANGED <<deviceVars, drawn, renewals>>

\* clear_open_nonce, before the daemon is told that the revert succeeded.
Clear ==
    /\ op.at = "clear"
    /\ ledger' = [ledger EXCEPT !.open_nonce = 0]
    /\ op' = [op EXCEPT !.at = "close"]
    /\ UNCHANGED <<host, link, late, sent, deviceVars, drawn, renewals, faults>>

\* The daemon commits the close.
Close ==
    /\ op.at = "close"
    /\ Return("closed")
    /\ UNCHANGED <<late, deviceVars, drawn, renewals, faults>>

\* A ledger that cannot be locked, read or written fails the call.
LedgerFails ==
    /\ op.at \in {"record", "reserve", "clear"}
    /\ Fault
    /\ Fail
    /\ UNCHANGED <<late, deviceVars, drawn, renewals>>

\* The daemon dies and is restarted: an interrupted open needs revert.
Crash ==
    /\ Fault
    /\ host' = CASE host = "opening" -> "needs-revert"
                 [] host = "open" -> "restoring"
                 [] OTHER -> host
    /\ op' = NoOp
    /\ link' = Quiet
    /\ UNCHANGED <<ledger, late, sent, deviceVars, drawn, renewals>>

Driver ==
    \/ RecordNonce \/ Revert \/ Restore \/ Reserve \/ TakeReply \/ TakeLate \/ Clear \/ Close

Next ==
    \/ Apply \/ Renew \/ Driver \/ TimeOut \/ LedgerFails \/ Crash
    \/ Tick \/ Reboot \/ PowerCut \/ Stick \/ Free
    \/ Deliver \/ StoreFails \/ Redeliver

Spec == Init /\ [][Next]_vars

\* A device that has power counts down.
FairSpec == Spec /\ WF_vars(Tick)

\* The daemon's reap loop retries, the device answers, and a relay is seen to
\* some time.
Served == WF_vars(Driver) /\ WF_vars(Deliver) /\ WF_vars(Free)

(***************************************************************************)
(* Properties                                                               *)
(***************************************************************************)
\* The first four hold until an interrupted write leaves the sector empty, and
\* with it the anti-replay mark at zero: see MarkSurvives.

\* While the daemon records the host closed, the device is closed, whatever
\* old token still arrives: a revert that returned Ok has outlawed them all.
ClosedIsClosed == erased \/ (host = "closed" => device.nonce = 0)

\* A grant the device holds is the one the daemon has on record, so that a
\* revocation always names it; crashes at any step included.
OwnGrant == erased \/ (device.nonce # 0 => device.nonce = ledger.open_nonce)

\* A token sets at most one deadline: neither a redelivery nor a replay after
\* a reboot or a write of the mark that stopped half way through the sector
\* extends or reopens a grant.
AnchorsOnce ==
    erased \/ \A i, j \in 1 .. Len(anchored) : anchored[i] = anchored[j] => i = j

\* A revert returns Ok only with the load off, but for the one exception of an
\* energized fail-state after a boot.
LoadIsOff ==
    [][host # "closed" /\ host' = "closed" /\ relay'.load /\ ~erased'
          => device'.reason = "boot" /\ relay'.energized]_vars

\* What needs revert is reverted once the faults cease.
RevertSucceeds == Served => (host = "needs-revert" ~> host = "closed")

\* A device closes its grant in time even if the daemon never acts again.
DeviceCloses == device.nonce # 0 ~> device.nonce = 0

(***************************************************************************)
(* What the repository says of this code and the code does not keep.        *)
(***************************************************************************)
\* logic/src/lib.rs: "A power cut mid-write corrupts at most the slot being
\* written; the previous mark survives in the other."
MarkSurvives == \A i \in 1 .. Len(anchored) : anchored[i] <= read_mark(flash)
=============================================================================
