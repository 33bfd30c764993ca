----------------------------- MODULE ErrorModel -----------------------------
(***************************************************************************)
(* The error codes of error.hpp, those of the kernel's header, and the     *)
(* Error that a method of Bus makes of what the kernel returns.            *)
(***************************************************************************)
EXTENDS Integers

CONSTANT NoMessage   \* the empty message of an Error made from a code alone

(* enum class ErrorCode *)
ErrorCode ==
  [Ok |-> 0, Error |-> -1, Again |-> -2, Eof |-> -3, Full |-> -4,
   NotFound |-> -5, Invalid |-> -6, Config |-> -10, Worker |-> -11,
   Routing |-> -12, Buffer |-> -13, State |-> -15, Timeout |-> -20,
   PolicyDenied |-> -21]

(* STDIO_BUS_OK and the codes that stdio_bus_embed.h takes from stdio_bus.h. *)
BaseCode ==
  [OK |-> 0, ERR |-> -1, EAGAIN |-> -2, EOF |-> -3, EFULL |-> -4,
   ENOTFOUND |-> -5, EINVAL |-> -6]

(* STDIO_BUS_ERR_*, which stdio_bus_embed.h adds *)
EmbedCode ==
  [ERR_CONFIG |-> -10, ERR_WORKER |-> -11, ERR_ROUTING |-> -12,
   ERR_BUFFER |-> -13, ERR_INVALID |-> -14, ERR_STATE |-> -15]

(* The codes of the kernel, of either header. *)
KernelCode ==
  [c \in DOMAIN BaseCode \cup DOMAIN EmbedCode |->
     IF c \in DOMAIN BaseCode THEN BaseCode[c] ELSE EmbedCode[c]]

(* error_code_name(): the switch names each code as its enumerator. *)
error_code_name(code) ==
  IF \E name \in DOMAIN ErrorCode : ErrorCode[name] = code
  THEN CHOOSE name \in DOMAIN ErrorCode : ErrorCode[name] = code
  ELSE "Unknown"

Error(code, message) == [code |-> code, message |-> message]

(* Error::operator bool *)
IsError(err) == err.code # ErrorCode.Ok

(* Error::message() *)
Message(err) ==
  IF err.message # NoMessage THEN err.message ELSE error_code_name(err.code)

(* A wrong form, which a run puts in the place of from_c. *)
from_c_negated(code) == Error(-code, NoMessage)

(* Error::from_c(): a cast, so that any int becomes an ErrorCode. *)
from_c(code) == Error(code, NoMessage)
=============================================================================
