---------------------------- MODULE MCStackRuns ----------------------------
(***************************************************************************)
(* Two commands over a shared stack, two environments of which one reads   *)
(* the other's output, and a stack that only exports.                       *)
(***************************************************************************)
EXTENDS StackRuns, TLC

MCStackOrder == <<"common", "dev", "prod", "site">>
MCWant == [v1 |-> [common |-> 1, dev |-> 1, prod |-> 1],
           v2 |-> [common |-> 2, dev |-> 1, prod |-> Absent]]
MCExports == [v1 |-> [common |-> {"x"}, dev |-> {"x"}, prod |-> {"x"}, site |-> {"x"}],
              v2 |-> [common |-> {"x"}, dev |-> {"x"}, prod |-> {"x"}, site |-> {"y"}]]
MCReads == [common |-> Nobody, dev |-> "common", prod |-> "dev"]
MCForbidden == {<<"dev", "delete">>}

Command(kind, version, envs, targets) ==
    [kind |-> kind, version |-> version, envs |-> envs, targets |-> targets, seal |-> "whole"]
Both == {"dev", "prod"}
MCCommands ==
    {Command("apply", "v1", Both, {}), Command("apply", "v2", Both, {}),
     Command("apply", "v1", {"dev"}, {}), Command("apply", "v2", {"prod"}, {}),
     Command("apply", "v1", {"prod"}, {}), Command("apply", "v1", Both, {"dev"}),
     Command("applyAnyway", "v2", Both, {}),
     Command("deploy", "v1", {"dev"}, {}),
     [Command("deploy", "v2", {"dev"}, {}) EXCEPT !.seal = "old"],
     [Command("deploy", "v1", Both, {}) EXCEPT !.seal = "altered"],
     Command("destroy", "v1", Both, {}), Command("destroy", "v1", Both, {"dev"}),
     Command("refresh", "v1", Both, {}), Command("import", "v1", Both, {"common"})}

Untracked == [n \in Nodes |-> Absent]
Applied == [common |-> [spec |-> 1, via |-> "literal", got |-> Absent],
            dev |-> [spec |-> 1, via |-> "ref", got |-> 1],
            prod |-> [spec |-> 1, via |-> "ref", got |-> 1]]
Nothing == [s \in Stacks |-> <<>>]
Exported == [s \in Stacks |-> [k \in {"x"} |-> IF s = "site" THEN "v1" ELSE 1]]
MCStores ==
    {[rows |-> Untracked, outs |-> Nothing, live |-> {}],
     [rows |-> Untracked, outs |-> Nothing, live |-> {"common"}],
     [rows |-> Applied, outs |-> Exported, live |-> Nodes]}
=============================================================================
