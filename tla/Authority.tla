------------------------------ MODULE Authority ------------------------------
(***************************************************************************)
(* The approval policy of core/src/authority.rs: weighted thresholds over   *)
(* authenticators, groups of factors and waits; how a policy is validated   *)
(* when it is loaded, and how it is evaluated.                              *)
(*                                                                          *)
(* A factor spec is [weight, names], `names` the authenticator, group and   *)
(* wait it names, of which there must be exactly one; a wait of 0 stands    *)
(* for one that does not parse.  Key material is sound or not.              *)
(***************************************************************************)
EXTENDS Naturals, Sequences, FiniteSetsExt, SequencesExt

CONSTANT MaxWaitCap     \* MAX_TTL_SECS: Ttl::parse refuses longer waits

\* The weights of a list of factors, added up in a u64.
Total(w) ==
    LET sum[n \in 0 .. Len(w)] == IF n = 0 THEN 0 ELSE sum[n - 1] + w[n]
    IN  sum[Len(w)]

(***************************************************************************)
(* build_authority: one group, profile or override body.                    *)
(***************************************************************************)
FactorOK(f) ==
    /\ f.weight > 0
    /\ Cardinality(f.names) = 1
    /\ \A n \in f.names : n.kind = "wait" => n.of \in 1 .. MaxWaitCap

Available(factors) == Total([i \in DOMAIN factors |-> factors[i].weight])

\* Mutant: a threshold of zero is let through.
BuildsFree(id, body) ==
    /\ id # ""
    /\ body.factor # <<>>
    /\ \A i \in DOMAIN body.factor : FactorOK(body.factor[i])
    /\ body.threshold <= Available(body.factor)

Builds(id, body) ==
    /\ id # ""
    /\ body.threshold > 0
    /\ body.factor # <<>>
    /\ \A i \in DOMAIN body.factor : FactorOK(body.factor[i])
    /\ body.threshold <= Available(body.factor)

Named(f) == CHOOSE n \in f.names : TRUE

BuildAuthority(body) ==
    [threshold |-> body.threshold,
     factors |-> [i \in DOMAIN body.factor |->
                     [weight |-> body.factor[i].weight,
                      kind |-> Named(body.factor[i]).kind,
                      of |-> Named(body.factor[i]).of]]]

(***************************************************************************)
(* from_spec, up to the cycle check, and resolve_override.                  *)
(***************************************************************************)
Ids(entries) == {entries[i].id : i \in DOMAIN entries}

Unique(entries) == Cardinality(Ids(entries)) = Len(entries)

\* Every kind of authenticator brings the material it needs, well formed.
AuthenticatorsOK(spec) ==
    /\ \A i \in DOMAIN spec.authenticator :
           spec.authenticator[i].id # "" /\ spec.authenticator[i].sound
    /\ Unique(spec.authenticator)

AuthoritiesOK(spec) ==
    /\ \A i \in DOMAIN spec.group : Builds(spec.group[i].id, spec.group[i])
    /\ Unique(spec.group)
    /\ \A i \in DOMAIN spec.profile : Builds(spec.profile[i].id, spec.profile[i])
    /\ Unique(spec.profile)
    /\ spec.profile # <<>>

Table(entries) ==
    [id \in Ids(entries) |->
        BuildAuthority(entries[CHOOSE i \in DOMAIN entries : entries[i].id = id])]

ModelOf(spec) ==
    [authenticators |-> Ids(spec.authenticator),
     groups |-> Table(spec.group),
     profiles |-> Table(spec.profile),
     mcp |-> {spec.profile[i].id : i \in {j \in DOMAIN spec.profile : spec.profile[j].mcp}}]

Refers(a, kind) == {a.factors[i].of : i \in {j \in DOMAIN a.factors : a.factors[j].kind = kind}}

CheckRefs(model, a) ==
    /\ Refers(a, "authenticator") \subseteq model.authenticators
    /\ Refers(a, "group") \subseteq DOMAIN model.groups

RefsOK(model) ==
    /\ \A g \in DOMAIN model.groups : CheckRefs(model, model.groups[g])
    /\ \A p \in DOMAIN model.profiles : CheckRefs(model, model.profiles[p])

ResolvesOverride(model, id, body) ==
    /\ Builds(id, body)
    /\ CheckRefs(model, BuildAuthority(body))

(***************************************************************************)
(* check_group_acyclic: a depth-first search with an explicit stack of      *)
(* <<group, entering>>, colours, and a child pushed as often as it is met   *)
(* white.  A search is [colour, stack]; the next step of one depends on the *)
(* top of its stack.                                                        *)
(***************************************************************************)
NewSearch(model) == [colour |-> [g \in DOMAIN model.groups |-> "white"], stack |-> <<>>]

\* The loop over a group's factors: each child that is white is pushed.
Pushed(factors, colour) ==
    LET pushed[n \in 0 .. Len(factors)] ==
            IF n = 0 THEN <<>>
            ELSE IF factors[n].kind = "group" /\ colour[factors[n].of] = "white"
                 THEN Append(pushed[n - 1], <<factors[n].of, TRUE>>)
                 ELSE pushed[n - 1]
    IN  pushed[Len(factors)]

Roots(search) == {g \in DOMAIN search.colour : search.colour[g] = "white"}

StartAt(search, g) == [colour |-> search.colour, stack |-> <<<<g, TRUE>>>>]

\* Mutant: a group is grey only while its own factors are looked at.
EnterForgetful(search, model) ==
    LET g == Last(search.stack)[1]
        colour == [search.colour EXCEPT ![g] = "black"]
    IN  [colour |-> colour,
         stack |-> Front(search.stack) \o <<<<g, FALSE>>>>
                       \o Pushed(model.groups[g].factors, colour)]

Enter(search, model) ==
    LET g == Last(search.stack)[1]
        colour == [search.colour EXCEPT ![g] = "grey"]
    IN  [colour |-> colour,
         stack |-> Front(search.stack) \o <<<<g, FALSE>>>>
                       \o Pushed(model.groups[g].factors, colour)]

\* Entering the top of the stack meets a group that is on the current path.
BackEdge(search, model) ==
    LET g == Last(search.stack)[1]
    IN  \E c \in Refers(model.groups[g], "group") : c = g \/ search.colour[c] = "grey"

\* Mutant: leaving does not blacken.
LeaveWhite(search) ==
    [colour |-> [search.colour EXCEPT ![Last(search.stack)[1]] = "white"],
     stack |-> Front(search.stack)]

Leave(search) ==
    [colour |-> [search.colour EXCEPT ![Last(search.stack)[1]] = "black"],
     stack |-> Front(search.stack)]

(***************************************************************************)
(* evaluate and max_wait                                                    *)
(***************************************************************************)
\* Mutant: a wait counts at its instant only.
SatisfiedAtInstant(f, proofs, elapsed, met) ==
    \/ f.kind = "authenticator" /\ f.of \in proofs
    \/ f.kind = "group" /\ met[f.of]
    \/ f.kind = "wait" /\ elapsed = f.of

\* met: which groups are met.
Satisfied(f, proofs, elapsed, met) ==
    \/ f.kind = "authenticator" /\ f.of \in proofs
    \/ f.kind = "group" /\ met[f.of]
    \/ f.kind = "wait" /\ elapsed >= f.of

Weight(a, proofs, elapsed, met) ==
    Total([i \in DOMAIN a.factors |->
              IF Satisfied(a.factors[i], proofs, elapsed, met) THEN a.factors[i].weight ELSE 0])

Groups(model, proofs, elapsed) ==
    LET met[g \in DOMAIN model.groups] ==
            Weight(model.groups[g], proofs, elapsed, met)
                >= model.groups[g].threshold
    IN  met

Evaluate(model, a, proofs, elapsed) ==
    Weight(a, proofs, elapsed, Groups(model, proofs, elapsed)) >= a.threshold

\* The groups an authority reaches: they are in every set that has the groups
\* it names and, with a group, those that group names.
Reached(model, a) ==
    LET closed(groups) ==
            /\ Refers(a, "group") \subseteq groups
            /\ \A g \in groups : Refers(model.groups[g], "group") \subseteq groups
    IN  {g \in DOMAIN model.groups :
            \A groups \in SUBSET DOMAIN model.groups : closed(groups) => g \in groups}

\* Mutant: the waits inside groups are forgotten.
MaxDirectWait(model, a) == Max({0} \union Refers(a, "wait"))

MaxWait(model, a) ==
    Max({0} \union Refers(a, "wait")
            \union UNION {Refers(model.groups[g], "wait") : g \in Reached(model, a)})
=============================================================================
