--------------------------- MODULE LineDiscipline ---------------------------
(***************************************************************************)
(* What terminals promise a typist who waits for the prompt: a line of at  *)
(* most Limit characters per terminal, edited at its end, handed over as a *)
(* whole (cut to the size of the reader's buffer) once Enter was struck,   *)
(* and untouched by what happens on the other terminals.                   *)
(***************************************************************************)
EXTENDS Integers, Sequences

CONSTANTS Terminals, Limit, Chars, Newline, Counts, None

VARIABLES
  line,      \* per terminal, what was typed and not yet handed over
  entered,   \* the terminals with an Enter that was not yet answered
  got        \* per terminal, what its reader got; None while it is getting it

vars == <<line, entered, got>>

Init ==
  /\ line = [t \in Terminals |-> <<>>]
  /\ entered = {}
  /\ got = [t \in Terminals |-> <<>>]

Longer(l, c) == IF Len(l) < Limit THEN Append(l, c) ELSE l

Type(t, c) ==
  /\ t \notin entered
  /\ line' = [line EXCEPT ![t] = Longer(@, c)]
  /\ UNCHANGED <<entered, got>>

Erase(t) ==
  /\ t \notin entered /\ line[t] # <<>>
  /\ line' = [line EXCEPT ![t] = SubSeq(@, 1, Len(@) - 1)]
  /\ UNCHANGED <<entered, got>>

(* Enter with Ctrl, or with the keys that switch terminals, adds nothing.  *)
Enter(t) ==
  /\ t \notin entered
  /\ entered' = entered \cup {t}
  /\ \/ line' = [line EXCEPT ![t] = Longer(@, Newline)]
     \/ line' = line
  /\ UNCHANGED got

Begin(t) ==
  /\ t \in entered /\ got[t] # None
  /\ got' = [got EXCEPT ![t] = None]
  /\ UNCHANGED <<line, entered>>

Hand(t) ==
  /\ t \in entered /\ got[t] = None
  /\ \E n \in Counts :
       got' = [got EXCEPT ![t] = SubSeq(line[t], 1, IF n < Len(line[t]) THEN n ELSE Len(line[t]))]
  /\ line' = [line EXCEPT ![t] = <<>>]
  /\ entered' = entered \ {t}

(* A request for no characters, or fewer, gets none.                       *)
Nothing(t) ==
  /\ got[t] # None
  /\ got' = [got EXCEPT ![t] = <<>>]
  /\ UNCHANGED <<line, entered>>

Next ==
  \E t \in Terminals :
    \/ \E c \in Chars : Type(t, c)
    \/ Erase(t) \/ Enter(t) \/ Begin(t) \/ Hand(t) \/ Nothing(t)

Spec == Init /\ [][Next]_vars
=============================================================================
