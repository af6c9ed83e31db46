------------------------------ MODULE ForcRun ------------------------------
(***************************************************************************)
(* `forc run` (src/forc/src/ops/forc_run.rs): one run of the command, an  *)
(* async function that awaits each call in turn, as a state machine with  *)
(* one action per step that can fail: locate the project, load and check  *)
(* the manifest, decode the script data, build, assemble the transaction, *)
(* then either print it (dry run) or send it to a node: create a client,  *)
(* health check, submit (or dry-run on the node), fetch the receipts.    *)
(* The node is the environment: every call to it may fail, and a submit   *)
(* may commit the transaction although its response never arrives.       *)
(***************************************************************************)
EXTENDS Naturals, Sequences, SequencesExt

CONSTANTS
    Commands,       \* the RunCommands: records of the fields run reads
    HexDigits,      \* the characters hex::decode accepts
    ContractIds,    \* the strings ContractId::from_str accepts
    None

VARIABLES
    cmd,            \* the command (never changes)
    pc,             \* the step run is at
    tx,             \* the transaction, once assembled
    calls,          \* the calls made to the node, with their outcome
    committed,      \* whether the node has committed the transaction
    result          \* None while running; then Ok, Err or a panic

vars == <<cmd, pc, tx, calls, committed, result>>

Ok(logs) == [out |-> "ok", logs |-> logs]
Err(kind) == [out |-> "err", kind |-> kind]
Panic == [out |-> "panic"]

\* Seeded fault: the 0x prefix is kept.
FormatHexDataKeep(data) == data

\* format_hex_data: cut one "0x" from the start.
FormatHexData(data) ==
    IF Len(data) >= 2 /\ data[1] = "0" /\ data[2] = "x"
    THEN SubSeq(data, 3, Len(data)) ELSE data

\* hex::decode: an even number of hex digits, two per byte; None otherwise.
HexDecode(s) ==
    IF Len(s) % 2 = 0 /\ Range(s) \subseteq HexDigits
    THEN [i \in 1..Len(s) \div 2 |-> <<s[2 * i - 1], s[2 * i]>>]
    ELSE None

\* get_tx_inputs_and_outputs: input idx is contract idx; output idx points
\* back at its input with input_index: idx as u8.
TxInputs(contracts) == [i \in 0..Len(contracts) - 1 |-> contracts[i + 1]]
TxOutputs(contracts) == [i \in 0..Len(contracts) - 1 |-> i % 256]
GetTxInputsAndOutputs(contracts) == <<TxInputs(contracts), TxOutputs(contracts)>>

\* create_tx_with_script_and_data: a script transaction (maturity 0, no
\* witnesses; the gas parameters are left out).
CreateTx(script, data, io, url) ==
    [script |-> script, data |-> data, inputs |-> io[1], outputs |-> io[2], url |-> url]

\* The node url: the flag, else the manifest's network, else NODE_URL.
NodeUrl(c) ==
    IF c.nodeUrl # None THEN c.nodeUrl
    ELSE IF c.network # None THEN c.network ELSE "default"

Call(name, ok) == [call |-> name, ok |-> ok]

\* Seeded fault: the error is recorded but run carries on (a lost `?`).
FailContinue(kind) == /\ result' = Err(kind)
                      /\ pc' = pc

\* An early return of Err(kind) through `?` or bail!.
Fail(kind) == /\ result' = Err(kind)
              /\ pc' = "done"

\* Seeded fault: --simulate is ignored and the transaction is submitted.
SendCallSubmitOnly(c) == "submit"

\* send_tx: submit, or with --simulate a dry run on the node.
SendCall(c) == IF c.simulate THEN "dry_run" ELSE "submit"

Init ==
    /\ cmd \in Commands
    /\ pc = "start"
    /\ tx = None
    /\ calls = <<>>
    /\ committed = FALSE
    /\ result = None

\* path_dir: the --path flag, else the current directory, which may fail.
ResolvePath ==
    /\ pc = "start"
    /\ IF cmd.path \/ cmd.cwdOk THEN pc' = "manifest" /\ UNCHANGED result
       ELSE Fail("current_dir")
    /\ UNCHANGED <<cmd, tx, calls, committed>>

\* ManifestFile::from_dir, then check_program_type(vec![Script]).
LoadManifest ==
    /\ pc = "manifest"
    /\ CASE cmd.manifest = "missing" -> Fail("manifest")
         [] cmd.manifest # "script"  -> Fail("program_type")
         [] OTHER                    -> pc' = "data" /\ UNCHANGED result
    /\ UNCHANGED <<cmd, tx, calls, committed>>

\* The --data flag, "" by default, decoded with expect("Invalid hex").
DecodeData ==
    /\ pc = "data"
    /\ LET d == IF cmd.data = None THEN <<>> ELSE cmd.data
       IN IF HexDecode(FormatHexData(d)) = None
          THEN result' = Panic /\ pc' = "done"
          ELSE pc' = "build" /\ UNCHANGED result
    /\ UNCHANGED <<cmd, tx, calls, committed>>

\* forc_build::build(build_command)?: the compiler may reject the program.
Build ==
    /\ pc = "build"
    /\ \/ pc' = "tx" /\ UNCHANGED result
       \/ Fail("build")
    /\ UNCHANGED <<cmd, tx, calls, committed>>

\* get_tx_inputs_and_outputs and create_tx_with_script_and_data: every
\* contract id is parsed with unwrap. Then node_url, and the dry run prints
\* the transaction and returns no receipts.
MakeTx ==
    /\ pc = "tx"
    /\ IF ~(Range(cmd.contracts) \subseteq ContractIds)
       THEN result' = Panic /\ pc' = "done" /\ UNCHANGED tx
       ELSE /\ tx' = CreateTx("bytecode",
                              HexDecode(FormatHexData(IF cmd.data = None THEN <<>> ELSE cmd.data)),
                              GetTxInputsAndOutputs(cmd.contracts), NodeUrl(cmd))
            /\ IF cmd.dryRun THEN result' = Ok(<<>>) /\ pc' = "done"
                             ELSE pc' = "client" /\ UNCHANGED result
    /\ UNCHANGED <<cmd, calls, committed>>

\* FuelClient::new(node_url)?: a malformed url is an error.
ClientNew ==
    /\ pc = "client"
    /\ IF tx.url = "malformed" THEN Fail("client") ELSE pc' = "health" /\ UNCHANGED result
    /\ UNCHANGED <<cmd, tx, calls, committed>>

\* client.health().await: no answer is fuel_core_not_running.
Health ==
    /\ pc = "health"
    /\ \E ok \in BOOLEAN :
          /\ calls' = Append(calls, Call("health", ok))
          /\ IF ok THEN pc' = "send" /\ UNCHANGED result ELSE Fail("not_running")
    /\ UNCHANGED <<cmd, tx, committed>>

\* client.submit(tx) or, with --simulate, client.dry_run(tx). A submit the
\* node accepts is committed whether or not its answer arrives; a failure
\* skips the receipts (and_then) and is bailed.
Send ==
    /\ pc = "send"
    /\ LET name == SendCall(cmd)
       IN \E ok \in BOOLEAN, accepted \in BOOLEAN :
             /\ ok => accepted
             /\ calls' = Append(calls, Call(name, ok))
             /\ committed' = (accepted /\ name = "submit")
             /\ IF ok THEN pc' = "receipts" /\ UNCHANGED result ELSE Fail("node")
    /\ UNCHANGED <<cmd, tx>>

\* client.receipts(id): the receipts of a transaction the node ran, else an
\* error; then print_receipt_output (which cannot fail on a receipt list:
\* serde gives an array of the same length) and Ok(logs).
Receipts ==
    /\ pc = "receipts"
    /\ \E ok \in BOOLEAN :
          /\ ok => committed \/ cmd.simulate
          /\ calls' = Append(calls, Call("receipts", ok))
          /\ IF ok THEN result' = Ok("receipts") /\ pc' = "done" ELSE Fail("node")
    /\ UNCHANGED <<cmd, tx, committed>>

\* run has returned (or panicked): the command is over.
Done ==
    /\ pc = "done"
    /\ UNCHANGED vars

Next ==
    \/ ResolvePath \/ LoadManifest \/ DecodeData \/ Build \/ MakeTx
    \/ ClientNew \/ Health \/ Send \/ Receipts \/ Done

Spec == Init /\ [][Next]_vars

-----------------------------------------------------------------------------
(* Properties                                                              *)

TypeOK ==
    /\ cmd \in Commands
    /\ pc \in {"start", "manifest", "data", "build", "tx", "client", "health",
               "send", "receipts", "done"}
    /\ committed \in BOOLEAN
    /\ (result = None) = (pc # "done")
    /\ \A i \in DOMAIN calls : calls[i].call \in {"health", "submit", "dry_run", "receipts"}

\* What the node was made to do agrees with what run reports, whatever the
\* node answers: a dry run never reaches the node and --simulate never
\* commits; nothing is sent to a node that failed its health check; the
\* receipts are asked for only after the transaction was accepted, and Ok
\* with receipts means the node ran it; a commit always follows a health
\* check that passed; and a committed transaction is reported as an error
\* only when the node's answer to the submit or the receipts failed.
NodeEffectsAsReported ==
    /\ cmd.dryRun => calls = <<>>
    /\ cmd.simulate => ~committed
    /\ result = Err("not_running") => calls = <<Call("health", FALSE)>>
    /\ \A i \in DOMAIN calls :
          calls[i].call = "receipts" =>
              i > 1 /\ calls[i - 1].call \in {"submit", "dry_run"} /\ calls[i - 1].ok
    /\ result = Ok("receipts") => committed \/ cmd.simulate
    /\ committed => Call("health", TRUE) \in Range(calls)
    /\ committed /\ result # None /\ result.out = "err" => result = Err("node")

\* The --data text run accepts: hex digits in pairs, after at most one 0x.
HexText(s) == Len(s) % 2 = 0 /\ Range(s) \subseteq HexDigits
AcceptedData(d) ==
    \/ HexText(d)
    \/ Len(d) >= 2 /\ SubSeq(d, 1, 2) = <<"0", "x">> /\ HexText(SubSeq(d, 3, Len(d)))

\* run panics (expect on the hex data, unwrap on a contract id) exactly on
\* malformed user input: a panic means the data or a contract id is
\* malformed, and a run that returns Ok had well-formed data and ids, with
\* the data decoded from the text after one 0x is cut.
PanicsOnlyOnMalformedInput ==
    LET d == IF cmd.data = None THEN <<>> ELSE cmd.data
    IN /\ result = Panic => ~AcceptedData(d) \/ ~(Range(cmd.contracts) \subseteq ContractIds)
       /\ result \in {Ok(<<>>), Ok("receipts")} =>
             /\ AcceptedData(d) /\ Range(cmd.contracts) \subseteq ContractIds
             /\ 2 * Len(tx.data) + (IF HexText(d) THEN 0 ELSE 2) = Len(d)

\* Every contract input of the transaction has exactly one contract output
\* that names it by input_index (construct_output_from_contract: output idx
\* belongs to input idx).
OutputsNameTheirInput ==
    tx # None => IsInjective(tx.outputs) /\ Range(tx.outputs) = DOMAIN tx.inputs

=============================================================================
