------------------------------ MODULE Accounts ------------------------------
(***************************************************************************)
(* Who the system is about.                                                *)
(***************************************************************************)
CONSTANTS
    Users,
    None   \* no user, no row, nothing

ASSUME AccountsAssumption == None \notin Users

=============================================================================
