------------------------- MODULE MCForeignAwaitable -------------------------
(* Programs for the coroutine of ForeignAwaitable. *)
EXTENDS ForeignAwaitable

Of(k, plans) == {[kind |-> k, plan |-> p] : p \in plans}

\* As the tests and the samples await: the counter once, or again by co_await
\* alone; the external awaitable once; four callbacks and then a pair of them.
AsUsed ==
    Of("atomic",
       {<<"direct">>, <<"spawned">>, <<"direct", "direct">>, <<"spawned", "direct">>})
    \cup Of("external", {<<"direct">>})
    \cup Of("callback", {<<"direct", "direct", "direct", "direct", "pair">>})

\* The counter, awaited again through a wrapping awaitable.
SpawnAgain == Of("atomic", {<<"direct", "spawned">>, <<"spawned", "spawned">>})
=============================================================================
