-------------------------- MODULE MCRelocResolve --------------------------
(***************************************************************************)
(* Relocation tables for TLC: every table of Count small objects whose     *)
(* sources are apart, up to the size MaxSize, in memory 1 .. Top.          *)
(***************************************************************************)
EXTENDS RelocResolve

CONSTANTS MaxSize, Top

SmallEntries == [src : 0 .. Top, dest : 1 .. Top, size : 1 .. MaxSize]

SourcesApart(t) ==
  \A p, q \in DOMAIN t :
    p # q /\ t[p].src # Null /\ t[q].src # Null =>
      ~is_overlap(t[p].src, t[p].size, t[q].src, t[q].size)

AllSmall == {t \in [1 .. Count -> SmallEntries] : Layout(t) /\ SourcesApart(t)}

\* No two objects of the same size.
AllDistinct ==
  {t \in AllSmall : \A p, q \in DOMAIN t : p # q => t[p].size # t[q].size}

SafeAbove == Top + 1 .. MemLimit - 1
===========================================================================
