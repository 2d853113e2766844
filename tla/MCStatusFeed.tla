---------------------------- MODULE MCStatusFeed -----------------------------
(***************************************************************************)
(* Small instances of the status feed for TLC: one client alone, signing   *)
(* in again and again, or a dashboard and a phone at once.                 *)
(***************************************************************************)
EXTENDS StatusFeed

CONSTANTS MaxSteady     \* bound: mishaps where two clients run

VARIABLE present        \* the clients there are

MCInit == FeedInit /\ present \in {{c} : c \in Clients} \cup {Clients}

\* Where there are two, each signs in once.
MCNext ==
    /\ FeedNext /\ UNCHANGED present
    /\ \A c \in Clients \ present : ~client'[c].want
    /\ Cardinality(present) > 1 => /\ \A c \in Clients : session'[c] <= 1
                                   /\ mishaps' <= MaxSteady
    /\ Cardinality(present) = 1 => \A b \in Casts : cast'[b] # Nil => cast'[b].about \in present

MCSpec == MCInit /\ [][MCNext]_<<feedVars, present>> /\ FeedFairness
=============================================================================
