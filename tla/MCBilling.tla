------------------------------ MODULE MCBilling ------------------------------
(* Small instance of Billing for TLC. *)
EXTENDS Billing, TLC

\* Names that only equality tells apart.
Symmetry ==
  Permutations(Licenses) \cup Permutations(Emails) \cup Permutations(Registrations)
    \cup Permutations(Deliveries)

\* Constraints: what is explored beyond the registrations, which share no row with the
\* webhooks.  The provider reports when all registrations are answered; the longest
\* sequence of events, which it takes to mix two of them into the row of a third, is of
\* one company.
RegistrationsFirst ==
  events # <<>> => \A h \in Registrations : rpc[h] \in {"answer", "done"} /\ answer[h] # "none"
LongIfOneCompany ==
  Len(events) > 2 => \A n \in DOMAIN events : events[n].company = events[1].company
=============================================================================
