----------------------------- MODULE MCPlanning -----------------------------
(***************************************************************************)
(* Small instances of Planning: a network (1, named, its name immutable),  *)
(* a subnet in it (2) and a machine (3) made with the subnet's id, with a  *)
(* value of the network's that an update moves, and a secret; beside them  *)
(* a resource on its own (5), protected.                                   *)
(***************************************************************************)
EXTENDS Planning

MCNodes == 1..5
MCFields == {"link", "size", "name", "key"}
MCImmutable == <<{"name"}, {"link"}, {"link", "name"}, {"link"}, {"key"}>>
MCNameField == <<"name", NoField, NoField, NoField, NoField>>

Plain(p) == [props |-> p, after |-> {}, was |-> {}, ignore |-> {}, prot |-> FALSE, cbd |-> FALSE]
Network(s, n) == Plain([size |-> Lit(s), name |-> Lit(n)])
Subnet == Plain([link |-> Ref(1, "id"), size |-> Lit(1)])
Machine == Plain([link |-> Ref(2, "id"), name |-> Ref(1, "ver"), key |-> Secret])
Base == <<Network(1, 1), Subnet, Machine>>

\* A protected resource made with a secret that cannot be changed in place.
Sealed == [n \in {5} |-> [Plain([key |-> Secret]) EXCEPT !.prot = TRUE]]

MCFirst == {Base}
MCConfigs ==
    {Base,
     <<Network(2, 1), Subnet, Machine>>,
     <<Network(1, 2), Subnet, Machine>>,
     <<Network(2, 1), Subnet, [Machine EXCEPT !.prot = TRUE]>>,
     <<Network(1, 2), Subnet, [Machine EXCEPT !.cbd = TRUE]>>,
     <<Network(2, 1), [Subnet EXCEPT !.props["size"] = Lit(2), !.ignore = {"size"}],
       [Machine EXCEPT !.props["link"] = Ref(1, "id"), !.after = {2}]>>,
     <<Network(1, 1), Subnet>>,
     \* the subnet renamed
     [n \in {1, 3, 4} |->
        CASE n = 1 -> Network(1, 1)
          [] n = 3 -> [Machine EXCEPT !.props["link"] = Ref(4, "id")]
          [] n = 4 -> [Subnet EXCEPT !.was = {2}]],
     Sealed}

Ask(d, t, f) == [destroy |-> d, targets |-> t, forced |-> f]
MCOption == {Ask(FALSE, {}, {}), Ask(FALSE, {2}, {}), Ask(FALSE, {}, {1}), Ask(FALSE, {2}, {2}),
             Ask(TRUE, {}, {}), Ask(TRUE, {2}, {})}

(* MCPlanningCycle: two nodes, the order of one before the other turned round. *)
MCTurned == {<<[Network(1, 1) EXCEPT !.after = {2}], Network(1, 2)>>,
             <<Network(1, 1), [Network(2, 2) EXCEPT !.after = {1}]>>}
MCTurnedNames == <<"name", "name", NoField, NoField, NoField>>

(* MCPlanningProtected: a protected resource and its secret, nothing else.   *)
MCSealed == {Sealed}
MCWhole == {Ask(FALSE, {}, {})}

(* MCPlanningSecret: the machine's size changes with the secret.             *)
MCKeyed == [MCImmutable EXCEPT ![3] = {"link", "name", "key"}]
MCSized == {<<Network(1, 1), Subnet, Plain([link |-> Ref(2, "id"), size |-> Lit(s), key |-> Secret])>> : s \in 1..2}

(* MCPlanningImport: a network renamed, and nothing else. *)
MCNamed == {<<Network(1, 1)>>, <<Network(1, 2)>>}
MCFirstNamed == {<<Network(1, 1)>>}
=============================================================================
