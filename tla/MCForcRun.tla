------------------------------ MODULE MCForcRun ------------------------------
(***************************************************************************)
(* Bounded RunCommands for ForcRun. A project is found, or not found with *)
(* or without a working directory, or is not a script. Every --data that  *)
(* matters to format_hex_data and hex::decode is used: absent, empty after *)
(* 0x, with and without 0x, 0x twice, odd length, a non-hex digit. Every  *)
(* --contract list that matters is used: none, one, two, a malformed id.  *)
(* Every combination of --dry-run and --simulate and every node url source *)
(* is used. The node's answers are left to ForcRun's environment.         *)
(***************************************************************************)
EXTENDS ForcRun

MCHexDigits == {"0", "a"}
MCContractIds == {"c1", "c2"}

Command(p, cwd, m, d, cs, dry, sim, url, net) ==
    [path |-> p, cwdOk |-> cwd, manifest |-> m, data |-> d, contracts |-> cs,
     dryRun |-> dry, simulate |-> sim, nodeUrl |-> url, network |-> net]

MCData ==
    {None, <<"0", "x">>, <<"a", "0">>, <<"0", "x", "a", "0">>,
     <<"0", "x", "0", "x", "a", "0">>, <<"a">>, <<"a", "x">>}

MCContracts == {<<>>, <<"c1">>, <<"c1", "c2">>, <<"c1", "bad">>}

\* Commands that stop before the data: no project, no directory, a contract.
EarlyCommands ==
    {Command(p, cwd, m, None, <<>>, FALSE, FALSE, None, None) :
        p, cwd \in BOOLEAN, m \in {"script", "contract", "missing"}}

\* Commands for a script project, every data, contract and node choice.
ScriptCommands ==
    {Command(TRUE, TRUE, "script", d, cs, dry, sim, url, net) :
        d \in MCData, cs \in MCContracts, dry, sim \in BOOLEAN,
        url \in {None, "flag", "malformed"}, net \in {None, "network"}}

MCCommands == EarlyCommands \cup ScriptCommands

\* 257 distinct contracts: one more than input_index (a u8) can name.
MCManyContractIds == 1..257
MCManyCommands ==
    {Command(TRUE, TRUE, "script", None, cs, TRUE, FALSE, None, None) :
        cs \in {<<>>, [i \in 1..256 |-> i], [i \in 1..257 |-> i]}}

=============================================================================
