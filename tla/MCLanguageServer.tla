-------------------------- MODULE MCLanguageServer --------------------------
(* Instances of LanguageServer for TLC: one document.                         *)
EXTENDS LanguageServer, TLC

CONSTANT u

Whole(t) == <<Change(NoRange, t)>>

\* An editor that sends whole texts, as one that does not edit by ranges may.
WholeTexts ==
  {Msg("didOpen", u, Whole(<<1>>)), Msg("didChange", u, Whole(<<1, 2>>))}
  \cup {Msg(k, u, <<>>) : k \in {"didSave", "didClose", "query", "badJson", "badUtf8",
          "badNotification", "initialize", "shutdown", "exit"}}

\* An editor that does as the server asks: it sends what it inserted, and where.
Ranges ==
  {Msg("didOpen", u, Whole(<<1>>)), Msg("didChange", u, <<Change(<<1, 1>>, <<2>>)>>),
   Msg("didChange", u, <<Change(<<0, 1>>, <<>>), Change(<<0, 0>>, <<2, 2>>)>>),
   Msg("query", u, <<>>), Msg("initialize", u, <<>>)}
=============================================================================
