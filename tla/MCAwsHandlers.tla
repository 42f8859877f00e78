--------------------------- MODULE MCAwsHandlers ---------------------------
(***************************************************************************)
(* Instances of AwsHandlers for TLC: every handler, one resource, a config *)
(* edited in its settings, in its name, in another immutable input.        *)
(***************************************************************************)
EXTENDS AwsHandlers

MCKeys == 1 .. 3
MCTags == {"a", "b"}
Base == [name |-> 1, imm |-> 1, body |-> 1, late |-> 1, tags |-> {"a"}, entries |-> <<1, 1, 0>>]
Edited == [Base EXCEPT !.body = 2, !.late = 2, !.tags = {"b"}, !.entries = <<2, 0, 1>>]
Moved == [Edited EXCEPT !.imm = 2]
Renamed == [Base EXCEPT !.name = 2]
MCConfigs == {Base, Edited, Moved, Renamed}

MCKinds == DOMAIN Handler
\* Resources that two of one node can exist of: their create call asks for a name.
MCCreateFirst == {"IamRole", "SqsQueue", "DynamoDbTable"}

\* Resources whose create call finds the node's earlier one by its mark.
MCCreateFirstTagged ==
    {"Vpc", "Subnet", "SecurityGroup", "NatGateway", "RouteTable", "CloudFrontDistribution"}

\* A resource that a delete has only its id to go by.
MCById == {"AcmCertificate"}
MCLosing == MCById \cup MCCreateFirstTagged
=============================================================================
