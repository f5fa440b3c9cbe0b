----------------------------- MODULE MCPipeline -----------------------------
(* Dispatchers on both sides of every bound, where int.MaxValue is 2. *)
EXTENDS Pipeline

Dispatcher(maxRetry, provider, length) ==
  [maxRetry |-> maxRetry, provider |-> provider, length |-> length]

\* ForEver with a wait; the least maximum, which the counter meets as it wraps, and
\* no wait; a maximum that it would meet after the wrap, if the array, which has
\* fewer time outs than there are retries, served it as long; and an array of none.
MCDispatchers ==
  { Dispatcher(2, "single", 0), Dispatcher(-3, "none", 0), Dispatcher(-1, "array", 2),
    Dispatcher(2, "array", 0) }
=============================================================================
