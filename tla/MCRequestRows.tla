--------------------------- MODULE MCRequestRows ---------------------------
(* One whole response that may be tried twice, and one stream; alone, a whole
   response that may be tried three times.                                    *)
EXTENDS RequestRows

CONSTANTS whole, stream
=============================================================================
