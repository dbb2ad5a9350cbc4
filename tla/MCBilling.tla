------------------------------ MODULE MCBilling -------------------------------
(* Small instances of Billing for TLC.                                      *)
EXTENDS Billing

CONSTANTS s1, s2

NoTurns == [visits |-> 0, voids |-> 0, relists |-> 0, issues |-> 0, links |-> 0, edits |-> 0, faults |-> 0]

\* An open invoice that customers pay while the merchant voids it.
Invoiced == [open |-> 1, subs |-> {}, totals |-> {0}, sound |-> {TRUE},
             turns |-> [NoTurns EXCEPT !.visits = 3, !.voids = 2, !.relists = 1, !.faults = 1]]
\* A link of the merchant's.
Linked == [open |-> 0, subs |-> {}, totals |-> {0}, sound |-> {TRUE},
           turns |-> [NoTurns EXCEPT !.visits = 3, !.links = 1, !.relists = 1, !.faults = 1]]
\* A subscription, with a merchant who edits it and makes an invoice.
Recurring == [open |-> 0, subs |-> {s1}, totals |-> {0}, sound |-> {TRUE},
              turns |-> [NoTurns EXCEPT !.edits = 2, !.issues = 1, !.faults = 1]]
\* Two that nobody edits, of which one or both perhaps cannot be billed.
Refused == [open |-> 0, subs |-> {s1, s2}, totals |-> {0, 2}, sound |-> BOOLEAN,
            turns |-> [NoTurns EXCEPT !.faults = 1]]

\* Invoices made, drafts among them, and voided.
Drafted == [open |-> 0, subs |-> {}, totals |-> {0}, sound |-> {TRUE},
            turns |-> [NoTurns EXCEPT !.issues = 2, !.voids = 2, !.visits = 1, !.faults = 1]]

AllStories == {Invoiced, Drafted, Linked, Recurring, Refused}

Regular   == <<0, 1, 2, 3, 4>>
=============================================================================
