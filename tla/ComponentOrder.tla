---------------------------- MODULE ComponentOrder ----------------------------
(***************************************************************************)
(* What the build system promises, with nothing of how: components are made*)
(* one from another, each by one maker at a time and after what it         *)
(* requires.  No make, stamp or recursion appears here.                    *)
(***************************************************************************)
CONSTANTS
    Component,
    Requires,  \* the REQUIRES of each component
    Alone      \* components that may be made without what they require (local_all)

VARIABLES
    made,      \* the components that are complete
    making     \* the components that somebody is making

orderVars == <<made, making>>

OrderInit == made = {} /\ making = {}

\* Making starts, at most once at a time, on top of everything required.
Begin(c) ==
    /\ c \notin made \cup making
    /\ Requires[c] \subseteq made \/ c \in Alone
    /\ making' = making \cup {c}
    /\ UNCHANGED made

Complete(c) ==
    /\ c \in making
    /\ made' = made \cup {c}
    /\ making' = making \ {c}

\* Recipes fail or are killed.
Abandon ==
    /\ making' \in SUBSET making
    /\ UNCHANGED made

\* Components are cleaned while nothing is made.
Clean ==
    /\ making = {}
    /\ made' \in SUBSET made
    /\ UNCHANGED making

OrderNext == (\E c \in Component : Begin(c) \/ Complete(c)) \/ Abandon \/ Clean

OrderSpec == OrderInit /\ [][OrderNext]_orderVars

=============================================================================
