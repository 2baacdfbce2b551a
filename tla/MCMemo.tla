------------------------------- MODULE MCMemo -------------------------------
(***************************************************************************)
(* Programs for Memo.  Those of Disciplined keep to what                   *)
(* docs/dev/memo-scopes.md asks of an author ("Three things a library      *)
(* author runs into"): a scope that may write always does, and no scope    *)
(* reads a slot that the function calling it writes.  Nothing in them      *)
(* issues a command more than one scope below the scopes "main" calls, or  *)
(* keys a slot by an explicit key.                                         *)
(***************************************************************************)
EXTENDS Memo

(* Two rows with a slot each; a leaf that reads a class of data and answers *)
(* the same whatever it says.                                               *)
Panel ==
    [main |-> <<<<"state", "top">>, <<"call", "row">>, <<"emit", 0>>, <<"call", "row">>>>,
     row |-> <<<<"emit", 0>>, <<"state", "local">>, <<"call", "leaf">>, <<"emit", 0>>>>,
     leaf |-> <<<<"query", 0>>, <<"unless", 1>>, <<"emit", 0>>, <<"load", 0>>>>]

(* A row that a binding shows and hides, and that counts its frames.        *)
Shown ==
    [main |-> <<<<"probe", 0>>, <<"unless", 2>>, <<"load", 1>>, <<"call", "row">>>>,
     row |-> <<<<"state", "local">>, <<"inc", 0>>, <<"set", "local">>, <<"call", "leaf">>>>,
     leaf |-> <<<<"state", "local">>, <<"emit", 0>>>>]

(* A leaf that commands when the class of data says so.                     *)
Gate ==
    [main |-> <<<<"call", "row">>, <<"probe", 0>>, <<"call", "row">>>>,
     row |-> <<<<"emit", 0>>, <<"call", "leaf">>, <<"command", 0>>>>,
     leaf |-> <<<<"query", 0>>, <<"unless", 1>>, <<"command", 0>>, <<"load", 1>>>>]

(* A leaf that fails on one answer, after its parent has done its part.     *)
Failing ==
    [main |-> <<<<"state", "top">>, <<"call", "row">>, <<"emit", 0>>, <<"command", 0>>>>,
     row |-> <<<<"command", 0>>, <<"state", "local">>, <<"inc", 0>>, <<"set", "local">>,
               <<"call", "leaf">>>>,
     leaf |-> <<<<"query", 0>>, <<"fail", 0>>, <<"probe", 0>>, <<"emit", 0>>>>]

(* A leaf that prints on one answer: neither it nor its parent is recorded. *)
Printing ==
    [main |-> <<<<"call", "row">>, <<"call", "row">>>>,
     row |-> <<<<"state", "local">>, <<"call", "leaf">>, <<"emit", 0>>>>,
     leaf |-> <<<<"probe", 0>>, <<"unless", 1>>, <<"print", 0>>, <<"query", 0>>>>]

(* One scope sets a slot of the root, its sibling reads it.                 *)
Context ==
    [main |-> <<<<"state", "top">>, <<"call", "row">>, <<"call", "leaf">>>>,
     row |-> <<<<"probe", 0>>, <<"set", "top">>>>,
     leaf |-> <<<<"get", "top">>, <<"emit", 0>>, <<"query", 0>>>>]

(* A scope that sets its slot for a while and sets it back.                 *)
Scratch ==
    [main |-> <<<<"query", 0>>, <<"call", "row">>>>,
     row |-> <<<<"state", "local">>, <<"load", 1>>, <<"set", "local">>, <<"get", "local">>,
               <<"emit", 0>>, <<"load", 0>>, <<"set", "local">>, <<"call", "leaf">>>>,
     leaf |-> <<<<"probe", 0>>, <<"emit", 0>>>>]

(* A branch taken on one answer only, next to a leaf that is always called. *)
Branch ==
    [main |-> <<<<"call", "row">>>>,
     row |-> <<<<"probe", 0>>, <<"unless", 1>>, <<"call", "leaf">>, <<"call", "leaf">>>>,
     leaf |-> <<<<"state", "local">>, <<"inc", 0>>, <<"set", "local">>, <<"query", 0>>,
                <<"emit", 0>>>>]

(* A slot written three scopes down, under a scope that runs again while    *)
(* the one in between is replayed.                                          *)
Nested ==
    [main |-> <<<<"call", "row">>>>,
     row |-> <<<<"call", "mid">>, <<"probe", 0>>, <<"emit", 0>>>>,
     mid |-> <<<<"emit", 0>>, <<"call", "leaf">>>>,
     leaf |-> <<<<"state", "local">>, <<"query", 0>>, <<"set", "local">>, <<"emit", 0>>>>]

Disciplined == {Panel, Shown, Gate, Failing, Printing, Context, Scratch, Branch, Nested}

(* A command two scopes below a scope that runs again while the scope in    *)
(* between is replayed.                                                     *)
Deep ==
    {[main |-> <<<<"call", "row">>>>,
      row |-> <<<<"call", "mid">>, <<"probe", 0>>, <<"emit", 0>>>>,
      mid |-> <<<<"emit", 0>>, <<"call", "leaf">>>>,
      leaf |-> <<<<"query", 0>>, <<"command", 0>>>>]}
=============================================================================
