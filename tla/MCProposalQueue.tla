---------------------------- MODULE MCProposalQueue ----------------------------
(* Instances of ProposalQueue for TLC. *)
EXTENDS ProposalQueue

Budget(arrivals, clicks, stops) ==
  [arrivals |-> arrivals, requests |-> clicks, restarts |-> stops]

\* Requests on two rows, one of them perhaps cut short.
Decisions == {Budget(2, 2, 0), Budget(2, 1, 1)}

\* Two paths that are only scanned, or one path and one click.
Convergence == {Budget(2, 0, 0), Budget(1, 1, 0)}

\* One file and one click.
OneClick == {Budget(1, 1, 0)}
=============================================================================
