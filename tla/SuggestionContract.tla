------------------------ MODULE SuggestionContract ------------------------
(* What the field adoption promises for a text that people edit: at most   *)
(* one suggestion is on offer for it, an offer is taken only while the     *)
(* text is still the one it was made for, and it is settled once.          *)
CONSTANTS Offers, Targets, Texts, Nothing

VARIABLES
  text,    \* the text of each target
  offer    \* for each target the offer that is open, with the text it saw

vars == <<text, offer>>

NoOffer == [id |-> Nothing, shown |-> Nothing]

Init ==
  /\ text \in [Targets -> Texts]
  /\ offer = [t \in Targets |-> NoOffer]

\* A person writes the text, with or without regard to an offer.
Write(t) ==
  /\ \E x \in Texts : text' = [text EXCEPT ![t] = x]
  /\ UNCHANGED offer

\* A new offer displaces the one before.
Make(t, o) ==
  /\ offer[t].id # o
  /\ offer' = [offer EXCEPT ![t] = [id |-> o, shown |-> text[t]]]
  /\ UNCHANGED text

Take(t) ==
  /\ offer[t] # NoOffer
  /\ offer[t].shown = text[t]
  /\ \E x \in Texts : text' = [text EXCEPT ![t] = x]
  /\ offer' = [offer EXCEPT ![t] = NoOffer]

Withdraw(t) ==
  /\ offer[t] # NoOffer
  /\ offer' = [offer EXCEPT ![t] = NoOffer]
  /\ UNCHANGED text

Next ==
  \E t \in Targets :
    \/ Write(t) \/ Take(t) \/ Withdraw(t)
    \/ \E o \in Offers : Make(t, o)

Spec == Init /\ [][Next]_vars
============================================================================
