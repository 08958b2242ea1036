------------------------ MODULE MCNommuPoolContract ------------------------
(***************************************************************************)
(* NommuPoolContract with pools of four pages, two address spaces and      *)
(* mappings of up to two pages: enough for one to lose half of itself.     *)
(***************************************************************************)
EXTENDS NommuPoolContract

MCRoundUp == <<1, 2>>
=============================================================================
