------------------------------ MODULE MCExpiry ------------------------------
(* Accounts, requests and lists for TLC. *)
EXTENDS Expiry

CONSTANTS alice, shop, bob, c1, c2, c3, d1

\* A year-end asset of the shop, and a rolling one of bob, who has nothing, and of alice,
\* whose holder has the shop's id.
MCLists == << [policy |-> "year_end", rows |-> <<shop>>],
              [policy |-> "rolling_days", rows |-> <<bob, alice>>] >>
MCHolderId == [a \in {alice, shop, bob} |-> IF a = bob THEN "bob" ELSE "alice"]

\* The shop's asset may be disabled: its list comes before the others.
MCBars == { {shop} }

MCHolder == [r \in {c1, c2, c3, d1} |-> IF r = c3 THEN shop ELSE alice]
MCChange == [r \in {c1, c2, c3, d1} |-> IF r = d1 THEN -1 ELSE 1]
MCFirstDays == [r \in {c1, c2, c3, d1} |->
                CASE r = c1 -> {0} [] r = c3 -> {0} [] r = c2 -> {2} [] r = d1 -> {1}]
=============================================================================
