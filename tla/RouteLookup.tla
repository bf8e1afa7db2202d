---------------------------- MODULE RouteLookup -----------------------------
(***************************************************************************)
(* 01-Router/router.c: the routing table, as parse_route_table and qsort   *)
(* leave it, and the binary search of get_best_route, one probe a step.    *)
(*                                                                         *)
(* Addresses are 32-bit words as inet_aton stores them, compared as the    *)
(* machine reads them: on a little-endian machine their last octet is the  *)
(* most significant one.  Top is 2^32, and And(a, b) is a & b.             *)
(***************************************************************************)
EXTENDS Integers, Sequences, FiniteSets

CONSTANTS Top, And(_, _),
          Routes,      \* entries [prefix, mask] of the routing file
          MaxRoutes    \* bound: entries of a table

Addresses == 0..(Top - 1)

ASSUME LookupAssumption ==
    /\ Top \in Nat \ {0}
    /\ \A a, b \in Addresses : And(a, b) \in Addresses
    /\ \A e \in Routes : e.prefix \in Addresses /\ e.mask \in Addresses
    /\ MaxRoutes \in Nat

VARIABLES
    rtable,   \* the sorted table
    dest_ip,  \* the address that is looked up
    l, r,     \* what is left of the table, with indices from 1
    ind,      \* the last entry found so far; 0 if none
    lookup    \* "unloaded", "idle", "search" or "done"

lookupVars == <<rtable, dest_ip, l, r, ind, lookup>>

LookupInit ==
    /\ rtable = <<>>
    /\ dest_ip = 0
    /\ l = 1
    /\ r = 0
    /\ ind = 0
    /\ lookup = "unloaded"

\* The unsigned difference a - b, returned as an int.
Difference(a, b) ==
    LET d == (a - b) % Top IN IF 2 * d >= Top THEN d - Top ELSE d

cmp(r1, r2) == IF r1.prefix = r2.prefix THEN Difference(r1.mask, r2.mask)
               ELSE Difference(r1.prefix, r2.prefix)

\* What qsort can leave: as cmp is no order, all that is known of a merge sort
\* is that neighbours are in the order cmp gives them.
Sorted(table) == \A i \in 1..(Len(table) - 1) : cmp(table[i], table[i + 1]) <= 0

\* parse_route_table reads the lines of the file in any order.
LoadTable ==
    /\ lookup = "unloaded"
    /\ \E n \in 0..MaxRoutes :
          /\ rtable' \in [1..n -> Routes]
          /\ Sorted(rtable')
    /\ lookup' = "idle"
    /\ UNCHANGED <<dest_ip, l, r, ind>>

\* get_best_route is called.
Call(d) ==
    /\ lookup \in {"idle", "done"}
    /\ dest_ip' = d
    /\ l' = 1
    /\ r' = Len(rtable)
    /\ ind' = 0
    /\ lookup' = "search"
    /\ UNCHANGED rtable

\* Mutant: the comparison is strict.
FitsStrictly(k) == And(dest_ip, rtable[k].mask) > rtable[k].prefix

\* The test at 69.  It does not ask whether the entry matches.
Fits(k) == And(dest_ip, rtable[k].mask) >= rtable[k].prefix

Probe ==
    LET m == l + (r - l) \div 2 IN
    /\ lookup = "search"
    /\ l <= r
    /\ IF Fits(m) THEN ind' = m /\ l' = m + 1 /\ UNCHANGED r
                  ELSE r' = m - 1 /\ UNCHANGED <<ind, l>>
    /\ UNCHANGED <<rtable, dest_ip, lookup>>

\* Entry ind, or NULL.
Return ==
    /\ lookup = "search"
    /\ l > r
    /\ lookup' = "done"
    /\ UNCHANGED <<rtable, dest_ip, l, r, ind>>

LookupNext ==
    \/ LoadTable
    \/ \E d \in Addresses : Call(d)
    \/ Probe
    \/ Return

LookupSpec == LookupInit /\ [][LookupNext]_lookupVars

(***************************************************************************)
(* Properties                                                              *)
(***************************************************************************)

\* What a route lookup is to find, for want of a default route.
Default(k) == rtable[k].prefix = 0
Proper == {k \in DOMAIN rtable : ~Default(k)}
Matches(k) == And(dest_ip, rtable[k].mask) = rtable[k].prefix

\* The table has one mask, but for a default route, and its prefixes are so
\* near to each other that no difference of two overflows.
OneMask == \A j, k \in Proper : rtable[j].mask = rtable[k].mask
NoOverflow == \A j, k \in DOMAIN rtable : 2 * (rtable[j].prefix - rtable[k].prefix) < Top

\* The fitting entries are the first ones of the table: what the search needs
\* and the code does not establish.
Monotone == \A j, k \in DOMAIN rtable : j < k /\ Fits(k) => Fits(j)

\* If it is so, the search finds the last one.
SearchFindsLast ==
    lookup = "done" /\ Monotone =>
        /\ ind = 0 \/ (ind \in DOMAIN rtable /\ Fits(ind))
        /\ \A k \in DOMAIN rtable : k > ind => ~Fits(k)

\* With one mask and near prefixes, an address that matches an entry is routed
\* by it and not by the default route, although the search never tests for a
\* match: only an address that matches none is sent the wrong way.
LookupRight ==
    lookup = "done" /\ OneMask /\ NoOverflow /\ (\E k \in Proper : Matches(k)) =>
        ind \in Proper /\ Matches(ind)
=============================================================================
