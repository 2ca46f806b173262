------------------------------- MODULE MCUser -------------------------------
(* Programs that use what they allocate, under SCFIFO and under NFUA: the      *)
(* initial state chooses the policy.                                           *)
EXTENDS MCPaging

VARIABLE policy

\* With two resident pages and ticks, so that pages have different ages.
Nfua == INSTANCE Paging WITH SELECTION <- "NFUA", MAX_PSYC_PAGES <- 2,
                             FirstCandidate <- 1, MaxGrow <- 1, Versions <- {1}

UserInit == policy \in {"SCFIFO", "NFUA"} /\ Init

UserNext ==
  \/ policy = "SCFIFO" /\ Next /\ UNCHANGED policy
  \/ policy = "NFUA" /\ Nfua!Next /\ UNCHANGED policy

UserSpec ==
  /\ UserInit /\ [][UserNext]_<<policy, vars>>
  /\ \A p \in Procs : WF_vars(policy = "SCFIFO" /\ Continue(p))

\* No panic() under SCFIFO.  nfua() may find no page to evict (kernel/vm.c:566), so
\* under NFUA the panic() of walk() on page -1 is the only one.
OnlyNfuaPanics ==
  panic = "none" \/ (policy = "NFUA" /\ panic = "walk")

\* Under SCFIFO, a process gets past every instruction that faults: swap_in() leaves
\* the page mapped, and no later eviction undoes it before the retry (Paging).
FaultsServed == policy = "SCFIFO" => FaultServed
=============================================================================
