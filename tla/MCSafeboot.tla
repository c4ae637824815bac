----------------------------- MODULE MCSafeboot -----------------------------
EXTENDS Safeboot

Hypervisor(bootstate, updated) ==
  [bootstate |-> bootstate, updated |-> updated, quickboot |-> FALSE,
   boots |-> TRUE]

Empty     == Hypervisor("INVALID", 0)
QuickBoot == [Hypervisor("VALID", 2) EXCEPT !.quickboot = TRUE]
Damaged   == Hypervisor("odd", 2)
Stateless == Hypervisor("missing", 2)

\* One installed hypervisor; the other volumes hold anything that is none, and
\* there are at most three banks.
Others == {NoBank, Empty, QuickBoot, Damaged, Hypervisor("VALID", 1)}

With(others) ==
  {d \in [Volumes -> others] :
     /\ \E v \in Volumes : d[v] = Hypervisor("VALID", 1)
     /\ Cardinality({v \in Volumes : d[v] # NoBank}) <= BOOTBANKS_NR}

Installed == With(Others)

\* The same, with banks whose /boot.cfg has no 'bootstate' line.
InstalledStateless == With(Others \cup {Stateless})
=============================================================================
