-------------------------------- MODULE Inputs --------------------------------
(***************************************************************************)
(* What a file, a field or an argument may be instead of a value.          *)
(***************************************************************************)
CONSTANTS Absent,    \* not there, or empty
          Malformed  \* there, and no value

=============================================================================
