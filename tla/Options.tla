------------------------------- MODULE Options -------------------------------
(* Option and Result as the modules on configuration and objects use them.   *)

CONSTANT None   \* Option::None

Ok(value) == [ok |-> TRUE, value |-> value]
Err(error) == [ok |-> FALSE, error |-> error]

\* Result::and_then, and what `?` does to the rest of a function
AndThen(result, f(_)) == IF result.ok THEN f(result.value) ELSE result
=============================================================================
