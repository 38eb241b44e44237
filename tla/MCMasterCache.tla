--------------------------- MODULE MCMasterCache ---------------------------
(* A share and a commodity whose contracts expire on days 1, 3 and 4. The morning    *)
(* session of day 2 is a holiday, so that the front contract is 1 until the          *)
(* afternoon of day 0, then 3 until that of day 1, and 4 from then on: what is found *)
(* rolls over twice, and the lists that are read meanwhile still hold what it left.  *)
EXTENDS MasterCache
=============================================================================
