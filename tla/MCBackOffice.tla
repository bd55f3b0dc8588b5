---------------------------- MODULE MCBackOffice ----------------------------
(***************************************************************************)
(* Small instances of BackOffice.                                          *)
(***************************************************************************)
EXTENDS BackOffice

CustomerOfStudy == [s \in Study |-> CHOOSE c \in Customer : TRUE]
DefaultDimensions == [t \in PersonType |-> Dimension]
=============================================================================
