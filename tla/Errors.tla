------------------------------- MODULE Errors --------------------------------
(***************************************************************************)
(* The error values of internal/pkg/pkgerror, what the use case makes of   *)
(* the errors of the store (usecase/usecase.go), and the HTTP status that  *)
(* the router's errorCodec gives them.  Messages and types are left out.   *)
(***************************************************************************)
EXTENDS Integers

(* Error.StatusCode. *)
StatusCode(code) ==
  CASE code = "INVALID_FORMAT" -> 400
    [] code = "INVALID_INPUT" -> 422
    [] code = "NOT_FOUND" -> 404
    [] code = "UNAUTHORIZED" -> 401
    [] code = "FORBIDDEN" -> 403
    [] code = "TIMEOUT" -> 408
    [] code = "CONFLICT" -> 409
    [] OTHER -> 500

(* A structured error is an Error of the package, any other is opaque. *)
NewError(code) == [structured |-> TRUE, code |-> code]
NewServer == NewError("INTERNAL")
NewBusiness(code) == NewError(code)
NewInvalidInput == NewError("INVALID_INPUT")
NewInvalidFormat == NewError("INVALID_FORMAT")
ErrNotFound == [structured |-> FALSE, code |-> "NONE"]

normalizeErr(err) == IF err.structured THEN err ELSE NewServer

mapStoreErr(err) ==
  IF err = ErrNotFound THEN NewBusiness("NOT_FOUND") ELSE normalizeErr(err)

(* errors.As finds a structured error or the response is a plain 500. *)
errorCodec(err) == IF err.structured THEN StatusCode(err.code) ELSE 500
=============================================================================
