------------------------------ MODULE Lifecycle ------------------------------
(***************************************************************************)
(* What the calls of one rank leave of its memory and descriptors when a   *)
(* step fails: check_code_failed (src/src/common.c) frees everything, and  *)
(* FAIL_IF_UNEXPECTED runs it again in every caller up to the API call.    *)
(* The protocol models take the outcomes found here for their faults.      *)
(***************************************************************************)
EXTENDS Integers, FiniteSets

CONSTANT MaxCalls \* bound: calls of COMB_Recover and COMB_Checkpoint

ASSUME LifecycleAssumption == MaxCalls \in Nat

VARIABLES
    site,     \* the step the call is in; "outside" a call, "aborted", "spinning", "finalized"
    chunk,    \* the global buffer: "null", "live" or "freed" with the pointer kept
    record,   \* the caller's cp, head of cps: "none", "live" or "freed"
    xorstruct,\* the global: "null" or "live"
    fd,       \* the global: "none", "open", "closed" in this call, "foreign" (closed in an earlier one)
    reports,  \* how often check_code_failed is still to run for the failure
    failing,  \* ghost: the steps of this call that failed
    harm,     \* ghost: what this call did to memory or descriptors it does not own
    dangling, \* ghost: chunk was left freed by an earlier call
    outcome,  \* what the last call returned
    ncalls    \* calls begun

lifevars == <<site, chunk, record, xorstruct, fd, reports, failing, harm, dangling, outcome, ncalls>>

(***************************************************************************)
(* The steps that can fail.  COMB_Checkpoint: the Reduce_scatter, the      *)
(* Allgather or write of the data, of the parity, the write of the         *)
(* metadata.  COMB_Recover: the same of the exchange phase with an x, and  *)
(* before them the read of the metadata, the negotiation, the exchange of  *)
(* the states, the transfer between partners and the receiver's metadata,  *)
(* the load (of the data alone or, with a lost partner group, of the data  *)
(* and the parity), and the collectives of the XOR phase.                  *)
(***************************************************************************)
Follows ==
    [xor |-> {"data"}, data |-> {"parity"}, parity |-> {"meta"}, meta |-> {"outside"},
     loadmeta |-> {"negotiate"}, negotiate |-> {"outside", "pstates"},
     pstates |-> {"pair", "load", "loaddata", "xstate"}, pair |-> {"pstates", "rmeta"}, rmeta |-> {"pstates"},
     load |-> {"xstate"}, loaddata |-> {"loadparity"}, loadparity |-> {"xstate"}, xstate |-> {"xrecover", "allxor"}, xrecover |-> {"allxor"},
     allxor |-> {"outside", "xdata"}, xdata |-> {"xparity"}, xparity |-> {"xmeta"}, xmeta |-> {"outside"}]
Steps == DOMAIN Follows

\* Mutant: the metadata are read through a descriptor of their own.
OpeningLater == Steps \ {"loadmeta", "xor", "negotiate", "pstates", "xstate", "xrecover", "allxor"}

\* Steps that work in the buffer, open files, or have no record yet.
InChunk == {"xor", "data", "parity", "pair", "xrecover", "xdata", "xparity"}
Opening == Steps \ {"xor", "negotiate", "pstates", "xstate", "xrecover", "allxor"}
NoRecord == {"loadmeta", "negotiate"}

\* Mutant: only the step itself reports the failure.
ReportsOnce(s) == {1}

\* How many functions on the way up report the failure of a step; write_data
\* reports by itself.  After a failure of the data partner_checkpoint tries to
\* write the parity to the descriptor that is closed by now.
Reports(s) ==
    CASE s \in {"xor", "meta", "loadmeta", "pstates", "rmeta", "loaddata", "xstate", "allxor"} -> {1}
      [] s = "parity" -> {1, 2}
      [] s \in {"negotiate", "pair", "load", "loadparity", "xrecover"} -> {2}
      [] s \in {"data", "xmeta"} -> {3}
      [] s = "xparity" -> {3, 4}
      [] s = "xdata" -> {5}

\* Mutant: recover_partners does not look at the result of the exchange of states.
StatesIgnored ==
    [s \in Steps |-> CASE s = "parity" -> "meta" [] s = "loadmeta" -> "negotiate" [] s = "rmeta" -> "pstates"
                       [] s = "loaddata" -> "loadparity"
                       [] s = "pstates" -> "load" [] OTHER -> "outside"]

\* Where the code goes on: most callers return, but COMB_Checkpoint writes the
\* metadata also after a failed transfer, and three results are not looked at.
ResumesAt ==
    [s \in Steps |-> CASE s = "parity" -> "meta" [] s = "loadmeta" -> "negotiate" [] s = "rmeta" -> "pstates"
                       [] s = "loaddata" -> "loadparity"
                       [] OTHER -> "outside"]

LifeInit ==
    /\ site = "outside" /\ chunk = "null" /\ record = "none" /\ xorstruct = "null" /\ fd = "none"
    /\ reports = 0 /\ failing = {} /\ harm = {} /\ dangling = FALSE /\ outcome = "none" /\ ncalls = 0

\* Mutant: the list is left allocated.
RecordLeft == record

\* free_cps_mem, where a call ends.
FreedRecord == IF record = "live" THEN "freed" ELSE record

Begin(first) ==
    /\ site = "outside" /\ ncalls < MaxCalls
    /\ site' = first /\ ncalls' = ncalls + 1
    /\ record' = IF first = "xor" THEN "live" ELSE "none"
    /\ xorstruct' = IF first = "xor" THEN "live" ELSE xorstruct
    /\ fd' = IF fd = "closed" THEN "foreign" ELSE fd
    /\ failing' = {} /\ harm' = {} /\ outcome' = "none"
    /\ dangling' = (chunk = "freed")
    /\ UNCHANGED <<chunk, reports>>

\* What is wrong with running step s now.
Misuse(s) == IF s \notin NoRecord /\ record = "freed" THEN {"use after free"} ELSE {}

Succeed(s) ==
    /\ site = s /\ reports = 0
    /\ site' \in Follows[s]
    /\ chunk' = IF s \in InChunk THEN "null" ELSE chunk
    /\ fd' = IF s \in Opening THEN "closed" ELSE fd
    /\ harm' = harm \cup Misuse(s)
    /\ IF s = "negotiate" /\ site' # "outside" THEN record' = "live" /\ xorstruct' = "live"
       ELSE record' = (IF site' = "outside" THEN FreedRecord ELSE record) /\ UNCHANGED xorstruct
    /\ outcome' = IF site' = "outside" THEN "SUCCESS" ELSE outcome
    /\ UNCHANGED <<reports, failing, dangling, ncalls>>

Fail(s) ==
    /\ site = s /\ reports = 0
    /\ reports' \in Reports(s)
    /\ chunk' = IF s \in InChunk THEN "live" ELSE chunk
    /\ fd' = IF s \in Opening THEN "open" ELSE fd
    /\ failing' = failing \cup {s}
    /\ harm' = harm \cup Misuse(s)
    /\ UNCHANGED <<site, record, xorstruct, dangling, outcome, ncalls>>

\* The Allgather of the data fails while variables are left to write: the loop
\* that writes them never goes on to the next.
Spin(s) ==
    /\ site = s /\ reports = 0 /\ s \in {"data", "xdata"}
    /\ site' = "spinning" /\ failing' = failing \cup {s} /\ outcome' = "spin"
    /\ UNCHANGED <<chunk, record, xorstruct, fd, reports, harm, dangling, ncalls>>

\* check_code_failed; freeing the chunk a second time aborts the process.
check_code_failed ==
    /\ reports > 0
    /\ IF chunk = "freed"
       THEN site' = "aborted" /\ outcome' = "abort" /\ UNCHANGED <<chunk, record, xorstruct, fd, reports, harm>>
       ELSE /\ chunk' = IF chunk = "live" THEN "freed" ELSE chunk
            /\ record' = FreedRecord
            /\ xorstruct' = "null"
            /\ harm' = IF fd = "foreign" THEN harm \cup {"foreign close"} ELSE harm
            /\ fd' = "closed"
            /\ reports' = reports - 1
            /\ IF reports > 1 THEN UNCHANGED <<site, outcome>>
               ELSE /\ site' = ResumesAt[site]
                    /\ outcome' = IF ResumesAt[site] = "outside" THEN "FAILED" ELSE outcome
    /\ UNCHANGED <<failing, dangling, ncalls>>

\* COMB_Finalize closes fd whatever it holds.
LifeFinalize ==
    /\ site = "outside" /\ site' = "finalized"
    /\ failing' = {}
    /\ harm' = IF fd \in {"closed", "foreign"} THEN {"foreign close"} ELSE {}
    /\ record' = FreedRecord /\ xorstruct' = "null" /\ fd' = "closed"
    /\ UNCHANGED <<chunk, reports, dangling, outcome, ncalls>>

LifeNext ==
    \/ Begin("xor") \/ Begin("loadmeta")
    \/ \E s \in Steps : Succeed(s) \/ Fail(s) \/ Spin(s)
    \/ check_code_failed
    \/ LifeFinalize

LifeSpec == LifeInit /\ [][LifeNext]_lifevars

-----------------------------------------------------------------------------
(* Properties.                                                             *)

\* Whatever failed in earlier calls, and whatever they left behind, a call in
\* which nothing fails touches nothing that is freed and leaves no record.
CleanCalls ==
    site = "outside" /\ ncalls > 0 /\ failing = {} =>
        outcome = "SUCCESS" /\ harm = {} /\ chunk # "live" /\ record # "live" /\ reports = 0

\* The parity structure is there for every step of a call that uses it, but for
\* the steps that run on after a failure without looking at it.
StructPresent ==
    site \in Steps \ NoRecord /\ reports = 0 /\ xorstruct = "null" => failing \cap {"parity", "rmeta", "loaddata"} # {}

\* One step fails, in a call that began with no chunk left over: the call returns
\* COMB_FAILED if the step has no chunk, or is the Reduce_scatter.  It returns
\* COMB_SUCCESS, having gone on in freed memory, when the transfer of the parity
\* or the receiver's metadata failed, or the load of the data before that of the
\* parity, whose result overwrites it.  In all other cases the process does not
\* survive the second report.
FaultsAsModelled ==
    site \in {"outside", "aborted", "spinning"} /\ ~dangling =>
        \A s \in Steps : failing = {s} =>
            /\ outcome = "FAILED" <=> s \in {"xor", "meta", "negotiate", "pstates", "load", "loadparity", "xstate", "allxor", "xmeta"}
            /\ outcome = "SUCCESS" => s \in {"loadmeta", "parity", "rmeta", "loaddata"}
            /\ outcome = "SUCCESS" /\ s # "loadmeta" => "use after free" \in harm
            /\ outcome \in {"abort", "spin"} => s \in InChunk \ {"xor"}

\* A descriptor that may be the application's by now is closed only by a call
\* that failed before it opened a file of its own, and by COMB_Finalize.
ForeignCloses ==
    "foreign close" \in harm =>
        site = "finalized" \/ failing \cap {"xor", "negotiate", "pstates", "xstate", "xrecover", "allxor"} # {}
=============================================================================
