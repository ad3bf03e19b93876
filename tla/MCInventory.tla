----------------------------- MODULE MCInventory -----------------------------
(***************************************************************************)
(* Instances of Inventory: families of files that each vary one part of it. *)
(***************************************************************************)
EXTENDS Inventory

F(kind, of, weight) == [weight |-> weight, names |-> {[kind |-> kind, of |-> of]}]
A(id) == F("authenticator", id, 1)
G(id) == F("group", id, 1)
W(secs) == F("wait", secs, 1)

Auth(id) == [id |-> id, sound |-> TRUE]
Body(threshold, factor) == [threshold |-> threshold, factor |-> factor]
Grp(id, threshold, factor) == [id |-> id, threshold |-> threshold, factor |-> factor]
Prof(id, threshold, factor) ==
    [id |-> id, threshold |-> threshold, factor |-> factor, mcp |-> FALSE]
Policy(auths, groups, profiles) ==
    [present |-> TRUE, authenticator |-> auths, group |-> groups, profile |-> profiles]
NoPolicy == [Policy(<<>>, <<>>, <<>>) EXCEPT !.present = FALSE]
NoAccess == [present |-> FALSE, profiles |-> {}, overrides |-> <<>>]
Access(profiles, overrides) == [present |-> TRUE, profiles |-> profiles, overrides |-> overrides]

BaseHost ==
    [name |-> "h1", address |-> TRUE, os |-> "linux", channels |-> <<"ssh">>,
     sections |-> {"ssh"}, defects |-> {}, localPort |-> 1, alg |-> "ed25519",
     access |-> NoAccess]
NoSigning == [present |-> FALSE, keys |-> {}]
File(hosts, signing, policy) == [hosts |-> hosts, signing |-> signing, approval |-> policy]
Simple == Policy(<<Auth("a"), Auth("b")>>, <<>>, <<Prof("p", 1, <<A("a")>>)>>)

Lists(menu, n) == BoundedSeq(menu, n) \ {<<>>}

\* Every graph over three groups in which two of them have at most two factors.
Graphs3 ==
    LET menu == {A("a"), G("g1"), G("g2"), G("g3")} IN
    {File(<<BaseHost>>, NoSigning,
          Policy(<<Auth("a")>>, <<Grp("g1", 1, x), Grp("g2", 1, y), Grp("g3", 1, z)>>,
                 <<Prof("p", 1, <<G("g1")>>)>>)) :
        x \in Lists(menu, 2), y \in Lists(menu, 2), z \in Lists(menu, 1)}

\* Thresholds, weights and waits, across two levels of groups.
Authorities ==
    {File(<<BaseHost>>, NoSigning,
          Policy(<<Auth("a"), Auth("b")>>, <<Grp("g1", n, x), Grp("g2", m, y)>>,
                 <<Prof("p", k, <<G("g1"), F("authenticator", "a", w)>>)>>)) :
        n \in 1 .. 2, m \in 1 .. 2, k \in 0 .. 3, w \in 1 .. 2,
        x \in Lists({A("b"), W(1), W(3), G("g2")}, 2), y \in Lists({A("b"), W(2)}, 2)}

\* Malformed policies.
Malformed ==
    {File(<<BaseHost>>, NoSigning, policy) : policy \in
        {Policy(<<Auth("a"), Auth("a")>>, <<>>, <<Prof("p", 1, <<A("a")>>)>>),
         Policy(<<Auth("")>>, <<>>, <<Prof("p", 1, <<W(1)>>)>>),
         Policy(<<[id |-> "a", sound |-> FALSE]>>, <<>>, <<Prof("p", 1, <<A("a")>>)>>),
         Policy(<<Auth("a")>>, <<>>, <<>>),
         Policy(<<Auth("a")>>, <<>>, <<Prof("p", 1, <<>>)>>),
         Policy(<<Auth("a")>>, <<>>, <<Prof("p", 1, <<A("z")>>)>>),
         Policy(<<Auth("a")>>, <<>>, <<Prof("p", 1, <<G("z")>>)>>),
         Policy(<<Auth("a")>>, <<>>, <<Prof("p", 1, <<W(0)>>)>>),
         Policy(<<Auth("a")>>, <<>>, <<Prof("p", 1, <<F("authenticator", "a", 0)>>)>>),
         Policy(<<Auth("a")>>, <<>>, <<Prof("p", 1, <<[weight |-> 1, names |-> {}]>>)>>)}}

\* What a host permits, and at which authority.
Accesses ==
    {File(<<[BaseHost EXCEPT !.access = Access(profiles, overrides)]>>, NoSigning, policy) :
        profiles \in SUBSET {"p", "q"},
        overrides \in {<<>>} \union [{"p"} -> {Body(1, <<A("b")>>), Body(2, <<A("b"), W(2)>>),
                                              Body(2, <<A("b")>>), Body(1, <<A("z")>>)}],
        policy \in {Simple, NoPolicy}}

SectionNames == ChannelNames \ {"authorized-keys"}
Defects == {"bad-key", "posture-unchanged", "no-keys", "method", "port", "password-len",
            "command", "status", "placeholder", "verify-word", "password-auth", "timeout",
            "device-id", "transport"}

\* A few lists of channels against every choice of up to two sections.
Hosts1 ==
    {File(<<[BaseHost EXCEPT !.channels = c, !.sections = s, !.os = os]>>,
          signing, NoPolicy) :
        c \in BoundedSeq(ChannelNames, 1) \union
                {<<"ssh", "authorized-keys">>, <<"ssh", "ssh">>, <<"vnc", "http">>},
        s \in {x \union y : x, y \in {{}} \union {{n} : n \in SectionNames}},
        os \in {"linux", "embedded"},
        signing \in {NoSigning, [present |-> TRUE, keys |-> {"ed25519"}]}}

\* Every defect, and two hosts that may share a name or a port.
Hosts2 ==
    {File(<<[BaseHost EXCEPT !.channels = <<c>>, !.sections = {c}, !.defects = {d}]>>,
          NoSigning, NoPolicy) : c \in SectionNames \ {"device"}, d \in Defects}
    \union
    {File(<<[BaseHost EXCEPT !.channels = <<"vnc">>, !.sections = {"vnc"}],
            [BaseHost EXCEPT !.name = n, !.channels = <<"vnc">>, !.sections = {"vnc"},
                             !.localPort = q]>>, NoSigning, NoPolicy) :
        n \in {"h1", "h2", ""}, q \in 1 .. 2}

AllInventories == Graphs3 \union Authorities \union Malformed \union Accesses \union Hosts1 \union Hosts2
=============================================================================
