------------------------------ MODULE Inventory ------------------------------
(***************************************************************************)
(* Loading an inventory (core/src/inventory.rs) with its approval policy,   *)
(* and the life of one request under the policy that was loaded: what open  *)
(* and approve in daemon/src/lifecycle.rs ask of it.                        *)
(*                                                                          *)
(* A host is [name, address, os, channels, sections, defects, localPort,    *)
(* alg, access]: the config sections it has, and what is wrong inside them, *)
(* one word per refusal of the validation.                                  *)
(***************************************************************************)
EXTENDS Authority

CONSTANTS
    Inventories,    \* the files a daemon may be started with
    ApprovalWindow  \* --approval-window

ASSUME InventoryAssumption == ApprovalWindow \in Nat \ {0} /\ MaxWaitCap \in Nat

ChannelNames == {"ssh", "authorized-keys", "vnc", "bmc", "http", "mqtt", "serial", "device"}

FactorSpecs ==
    [weight : Nat,
     names : SUBSET ([kind : {"authenticator", "group"}, of : STRING] \union
                     [kind : {"wait"}, of : Nat])]

\* A file that parses has the types of the structs it is read into; an unknown
\* channel, a negative weight or an unknown kind of factor does not parse.
Parsed(file) ==
    LET body(b) == b.threshold \in Nat /\ b.factor \in Seq(FactorSpecs)
    IN  /\ \A i \in DOMAIN file.hosts :
               /\ file.hosts[i].channels \in Seq(ChannelNames)
               /\ \A p \in DOMAIN file.hosts[i].access.overrides :
                      body(file.hosts[i].access.overrides[p])
        /\ \A i \in DOMAIN file.approval.group : body(file.approval.group[i])
        /\ \A i \in DOMAIN file.approval.profile : body(file.approval.profile[i])

ASSUME ParsedAssumption == \A file \in Inventories : Parsed(file)

VARIABLES
    inventory,  \* the parsed file
    phase,      \* how far the load has come
    search,     \* the cycle check's colours and stack
    request     \* the pending request, or NoRequest

vars == <<inventory, phase, search, request>>

NoRequest == [host |-> "", profile |-> "", proofs |-> {}, elapsed |-> 0]

Phases == {"hosts", "policy", "cycles", "access", "serving", "refused", "cyclic"}

Model == ModelOf(inventory.approval)

\* The load and the request are where the code may be.
TypeOK ==
    /\ phase \in Phases
    /\ \A g \in DOMAIN search.colour : search.colour[g] \in {"white", "grey", "black"}
    /\ request.elapsed \in 0 .. ApprovalWindow
    /\ phase = "serving" => request.proofs \subseteq Ids(inventory.approval.authenticator)

Init ==
    /\ inventory \in Inventories
    /\ phase = "hosts"
    /\ search = [colour |-> <<>>, stack |-> <<>>]
    /\ request = NoRequest

(***************************************************************************)
(* validate: the hosts.                                                     *)
(***************************************************************************)
Has(h, channel) == Contains(h.channels, channel)

\* A section is there exactly when a channel wants it, and in order.
Paired(h, section, wanted, defects) ==
    /\ section \in h.sections <=> wanted
    /\ wanted => h.defects \cap defects = {}

\* Mutant: only the ssh channel wants the [ssh] section.
SshOKForSshOnly(h) == Paired(h, "ssh", Has(h, "ssh"), {"bad-key"})

SshOK(h) ==
    /\ Paired(h, "ssh", Has(h, "ssh") \/ Has(h, "authorized-keys"), {"bad-key"})
    /\ Has(h, "ssh") => "posture-unchanged" \notin h.defects
    /\ Has(h, "authorized-keys") => "no-keys" \notin h.defects

BmcOK(h) == Paired(h, "bmc", Has(h, "bmc"), {"method"})

VncOK(h) == Paired(h, "vnc", Has(h, "vnc"), {"port", "password-len", "command"})

GenericOK(h) ==
    /\ Paired(h, "http", Has(h, "http"), {"status", "placeholder", "verify-word"})
    /\ Paired(h, "mqtt", Has(h, "mqtt"),
              {"password-auth", "placeholder", "verify-word", "timeout"})
    /\ Paired(h, "serial", Has(h, "serial"), {"timeout", "placeholder", "verify-word"})

\* alg names the signing key the device's tokens need.
DeviceOK(h) ==
    /\ Paired(h, "device", Has(h, "device"), {"device-id", "transport", "password-auth", "timeout"})
    /\ Has(h, "device") => h.alg \in inventory.signing.keys

EmbeddedOK(h) ==
    h.os = "embedded" => \A c \in {"ssh", "authorized-keys", "vnc"} : ~Has(h, c)

HostOK(h) ==
    /\ h.name # "" /\ h.address
    /\ h.channels # <<>> /\ Cardinality(ToSet(h.channels)) = Len(h.channels)
    /\ SshOK(h) /\ BmcOK(h) /\ VncOK(h)
    /\ GenericOK(h) /\ DeviceOK(h) /\ EmbeddedOK(h)

HostsOK ==
    LET hs == inventory.hosts IN
    /\ \A i \in DOMAIN hs : HostOK(hs[i])
    /\ \A i, j \in DOMAIN hs :
           /\ i # j => hs[i].name # hs[j].name
           /\ i # j /\ Has(hs[i], "vnc") /\ Has(hs[j], "vnc") => hs[i].localPort # hs[j].localPort
    /\ inventory.signing.present => \E i \in DOMAIN hs : Has(hs[i], "device")

(***************************************************************************)
(* validate: the policy, and each host's access against it.                 *)
(***************************************************************************)
ValidateHosts ==
    /\ phase = "hosts"
    /\ phase' = IF ~HostsOK THEN "refused"
                ELSE IF inventory.approval.present THEN "policy" ELSE "access"
    /\ UNCHANGED <<inventory, search, request>>

FromSpec ==
    LET spec == inventory.approval
        ok == AuthenticatorsOK(spec) /\ AuthoritiesOK(spec) /\ RefsOK(ModelOf(spec))
    IN  /\ phase = "policy"
        /\ phase' = IF ok THEN "cycles" ELSE "refused"
        /\ search' = IF ok THEN NewSearch(ModelOf(spec)) ELSE search
        /\ UNCHANGED <<inventory, request>>

StartSearch ==
    /\ phase = "cycles"
    /\ search.stack = <<>>
    /\ \/ /\ Roots(search) = {}
          /\ phase' = "access"
          /\ UNCHANGED search
       \/ /\ \E g \in Roots(search) : search' = StartAt(search, g)
          /\ UNCHANGED phase
    /\ UNCHANGED <<inventory, request>>

EnterGroup ==
    /\ phase = "cycles"
    /\ search.stack # <<>> /\ Last(search.stack)[2]
    /\ IF BackEdge(search, Model)
       THEN phase' = "cyclic" /\ UNCHANGED search
       ELSE search' = Enter(search, Model) /\ UNCHANGED phase
    /\ UNCHANGED <<inventory, request>>

LeaveGroup ==
    /\ phase = "cycles"
    /\ search.stack # <<>> /\ ~Last(search.stack)[2]
    /\ search' = Leave(search)
    /\ UNCHANGED <<inventory, phase, request>>

AccessOK(h) ==
    h.access.present =>
        /\ inventory.approval.present
        /\ h.access.profiles # {}
        /\ h.access.profiles \subseteq DOMAIN Model.profiles
        /\ \A p \in DOMAIN h.access.overrides :
               p \in h.access.profiles /\ ResolvesOverride(Model, p, h.access.overrides[p])

CheckAccess ==
    /\ phase = "access"
    /\ phase' = IF \A i \in DOMAIN inventory.hosts : AccessOK(inventory.hosts[i])
                THEN "serving" ELSE "refused"
    /\ UNCHANGED <<inventory, search, request>>

Loading == ValidateHosts \/ FromSpec \/ StartSearch \/ EnterGroup \/ LeaveGroup \/ CheckAccess

(***************************************************************************)
(* One request under the loaded policy.                                     *)
(***************************************************************************)
Host(name) == inventory.hosts[CHOOSE i \in DOMAIN inventory.hosts : inventory.hosts[i].name = name]

PermittedProfiles(h) == IF h.access.present THEN h.access.profiles ELSE DOMAIN Model.profiles

Resolvable(h, p) ==
    /\ p \in PermittedProfiles(h)
    /\ IF h.access.present /\ p \in DOMAIN h.access.overrides
       THEN ResolvesOverride(Model, p, h.access.overrides[p])
       ELSE p \in DOMAIN Model.profiles

ResolveAuthority(h, p) ==
    IF h.access.present /\ p \in DOMAIN h.access.overrides
    THEN BuildAuthority(h.access.overrides[p])
    ELSE Model.profiles[p]

\* An open is refused when a wait it may need does not fit the window.
Open(h, p) ==
    /\ phase = "serving" /\ inventory.approval.present
    /\ request = NoRequest
    /\ Resolvable(h, p)
    /\ MaxWait(Model, ResolveAuthority(h, p)) < ApprovalWindow
    /\ request' = [host |-> h.name, profile |-> p, proofs |-> {}, elapsed |-> 0]
    /\ UNCHANGED <<inventory, phase, search>>

Prove(a) ==
    /\ request # NoRequest
    /\ request' = [request EXCEPT !.proofs = @ \union {a}]
    /\ UNCHANGED <<inventory, phase, search>>

\* A request lapses when its window is over.
Wait ==
    /\ request # NoRequest
    /\ request' = IF request.elapsed + 1 < ApprovalWindow
                  THEN [request EXCEPT !.elapsed = @ + 1]
                  ELSE NoRequest
    /\ UNCHANGED <<inventory, phase, search>>

\* A daemon with a bad inventory exits; one that serves may have nothing to do.
Rest ==
    /\ phase \in {"refused", "cyclic", "serving"}
    /\ request = NoRequest
    /\ UNCHANGED vars

Next ==
    \/ Loading
    \/ \E i \in DOMAIN inventory.hosts :
           \E p \in Ids(inventory.approval.profile) : Open(inventory.hosts[i], p)
    \/ \E a \in Ids(inventory.approval.authenticator) : Prove(a)
    \/ Wait
    \/ Rest

Spec == Init /\ [][Next]_vars /\ WF_vars(Loading)

(***************************************************************************)
(* Properties.                                                              *)
(***************************************************************************)
Met == Evaluate(Model, ResolveAuthority(Host(request.host), request.profile),
                request.proofs, request.elapsed)

Pending == request # NoRequest

Cyclic == \E g \in DOMAIN Model.groups : g \in Reached(Model, Model.groups[g])

\* check_group_acyclic refuses exactly the policies some group of which
\* reaches itself, whatever order its stack visits groups in and however
\* often it holds one.
CycleVerdict ==
    /\ phase = "cyclic" => Cyclic
    /\ phase \in {"access", "serving"} /\ inventory.approval.present => ~Cyclic

\* Every load comes to a verdict; the search in check_group_acyclic does not
\* go on for ever.
LoadDecides == <>(phase \in {"serving", "refused", "cyclic"})

\* What validate() accepts can be served: each channel has the section its
\* driver reads, no two tunnels share a local port, and every profile a host
\* permits resolves to an authority when open or approve asks for it.
AcceptedIsServable ==
    phase = "serving" =>
        LET hs == inventory.hosts IN
        /\ \A i \in DOMAIN hs : \A c \in ToSet(hs[i].channels) :
               (IF c = "authorized-keys" THEN "ssh" ELSE c) \in hs[i].sections
        /\ \A i, j \in DOMAIN hs :
               i # j /\ {"vnc"} \subseteq hs[i].sections \cap hs[j].sections
                   => hs[i].localPort # hs[j].localPort
        /\ inventory.approval.present =>
               \A i \in DOMAIN hs : \A p \in PermittedProfiles(hs[i]) : Resolvable(hs[i], p)

\* A policy that loads opens nothing by itself: without a proof and before any
\* time has passed no authority evaluates to met.
NothingForFree == Pending /\ request.proofs = {} /\ request.elapsed = 0 => ~Met

\* A request that open let in can be approved: with every proof given, its
\* authority is met before the window closes, whatever groups and waits it
\* rests on.
Approvable ==
    (/\ Pending
     /\ request.proofs = Ids(inventory.approval.authenticator)
     /\ request.elapsed = ApprovalWindow - 1)
        => Met

\* While a request is pending, a proof or the passing of time never takes back
\* that its authority is met.
MetStays == [][Pending /\ Met /\ request' # NoRequest => Met']_vars
=============================================================================
