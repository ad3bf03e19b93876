------------------------------- MODULE Grant -------------------------------
(***************************************************************************)
(* One host's grant: its stored states, the status a reader observes at an *)
(* instant, and the transitions of core/src/grant.rs, each as a predicate   *)
(* that says when the code accepts it and an operator that gives the state  *)
(* it leaves behind.  A refused transition changes nothing.                 *)
(*                                                                          *)
(* Times are whole seconds (or any other unit), as on disk.  A channel list *)
(* is a set: no property depends on the declaration order.  The challenge   *)
(* nonce is a number that is never drawn twice.                             *)
(***************************************************************************)
EXTENDS Integers

CONSTANTS
    Channels,           \* the channels a host may declare
    Profiles,           \* the approval profiles, the synthetic ones included
    Authenticators,     \* the ids a verified proof may satisfy
    MAX_TTL,            \* ttl.rs: the cap on a grant's lifetime
    RENEWAL_WINDOW      \* ttl.rs: renewal is accepted this close to expiry

ASSUME TtlAssumption ==
    /\ MAX_TTL \in Nat \ {0}
    /\ RENEWAL_WINDOW \in Nat

\* The values Ttl::from_secs accepts.
Ttl == 1 .. MAX_TTL

(***************************************************************************)
(* The stored states.                                                       *)
(***************************************************************************)
Closed == [state |-> "closed"]

Pending(requested_at, approval_deadline, ttl, nonce, profile, satisfied) ==
    [state |-> "pending", requested_at |-> requested_at,
     approval_deadline |-> approval_deadline, ttl |-> ttl, nonce |-> nonce,
     profile |-> profile, satisfied |-> satisfied]

Opening(opened_at, expires_at, channels) ==
    [state |-> "opening", opened_at |-> opened_at, expires_at |-> expires_at,
     channels |-> channels]

OpenGrant(opened_at, expires_at, channels) ==
    [state |-> "open", opened_at |-> opened_at, expires_at |-> expires_at,
     channels |-> channels]

NeedsRevert(channels) == [state |-> "needs-revert", channels |-> channels]

PendingGrants ==
    [state : {"pending"}, requested_at : Nat, approval_deadline : Nat,
     ttl : Ttl, nonce : Nat, profile : Profiles,
     satisfied : SUBSET Authenticators]

IntervalGrants(state) ==
    [state : {state}, opened_at : Nat, expires_at : Nat,
     channels : SUBSET Channels]

RevertGrants == [state : {"needs-revert"}, channels : SUBSET Channels]

GrantState ==
    {Closed} \union PendingGrants \union IntervalGrants("opening")
        \union IntervalGrants("open") \union RevertGrants

(***************************************************************************)
(* What a reader observes at `now`.  The boundary instant is expired, for   *)
(* an approval window and for an open grant alike.                          *)
(***************************************************************************)
AwaitingApproval(g, now) == g.state = "pending" /\ now < g.approval_deadline
ApprovalExpired(g, now) == g.state = "pending" /\ now >= g.approval_deadline
\* Mutant: an open still being driven is reaped as well.
ExpiredMidOpen(g, now) == g.state \in {"opening", "open"} /\ now >= g.expires_at
IsOpen(g, now) == g.state = "open" /\ now < g.expires_at
Expired(g, now) == g.state = "open" /\ now >= g.expires_at

\* The channels a grant admits may be applied on its host.
Recorded(g) ==
    IF g.state \in {"opening", "open", "needs-revert"} THEN g.channels ELSE {}

\* Time a pending request has waited; a clock behind the request reads zero.
Elapsed(g, now) == IF now >= g.requested_at THEN now - g.requested_at ELSE 0

(***************************************************************************)
(* The transitions.                                                         *)
(***************************************************************************)
CanBeginPending(g) == g.state = "closed"
BeginPending(now, approval_deadline, ttl, nonce, profile) ==
    Pending(now, approval_deadline, ttl, nonce, profile, {})

CanAddSatisfied(g, now) == AwaitingApproval(g, now)
AddSatisfied(g, id) == [g EXCEPT !.satisfied = @ \union {id}]

CanApprove(g, now) == AwaitingApproval(g, now)
ApproveToOpening(g, now, channels) == Opening(now, now + g.ttl, channels)

CanCancelPending(g) == g.state = "pending"

MidOpen(g) == g.state = "opening"
FinishOpen(g) == OpenGrant(g.opened_at, g.expires_at, g.channels)
\* Mutant: a failed open closes although channels are stuck.
UnwindForgetsStuck(stuck) == Closed
\* fail_open when channels are stuck, abort_open when none is.
UnwindOpen(stuck) == IF stuck = {} THEN Closed ELSE NeedsRevert(stuck)

CanRevert(g) == g.state \in {"open", "needs-revert"}
BeginRevert(g) == NeedsRevert(g.channels)

\* retain_stuck and finish_revert are accepted by a needs-revert grant only.
Reverting(g) == g.state = "needs-revert"

\* Mutant: a renewal drops the recorded channels.
RenewForgetsChannels(g, now, ttl) == OpenGrant(g.opened_at, now + ttl, {})
CanRenew(g, now) == IsOpen(g, now) /\ g.expires_at - now <= RENEWAL_WINDOW
Renew(g, now, ttl) == OpenGrant(g.opened_at, now + ttl, g.channels)

\* Mutant: an interrupted open is taken for one that applied nothing.
DemoteToClosed(g) == IF MidOpen(g) THEN Closed ELSE g
\* Boot-time demotion: every channel of an interrupted open may be applied.
Demote(g) == IF MidOpen(g) THEN NeedsRevert(g.channels) ELSE g

\* Mutant: a lapsed request keeps its fields when it is closed.
ReapKeepsFields(g, now) ==
    IF Expired(g, now) THEN BeginRevert(g)
    ELSE IF ApprovalExpired(g, now) THEN [g EXCEPT !.state = "closed"]
    ELSE g
\* One reap of one grant: an expired grant needs revert, a lapsed request is
\* closed, everything else is left alone.
Reap(g, now) ==
    IF Expired(g, now) THEN BeginRevert(g)
    ELSE IF ApprovalExpired(g, now) THEN Closed
    ELSE g

(***************************************************************************)
(* What the snapshot layer accepts when it reads a stored grant back: an    *)
(* interval and an approval window are not empty and within the cap (the    *)
(* window's cap is the same constant).                                      *)
(***************************************************************************)
Loads(g) ==
    /\ g.state \in {"opening", "open"} =>
          /\ g.opened_at < g.expires_at
          /\ g.expires_at - g.opened_at <= MAX_TTL
    /\ g.state = "pending" =>
          /\ g.requested_at < g.approval_deadline
          /\ g.approval_deadline - g.requested_at <= MAX_TTL
=============================================================================
