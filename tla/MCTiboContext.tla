--------------------------- MODULE MCTiboContext ---------------------------
EXTENDS TiboContext, TLC

CONSTANTS p, q, other

\* A post with a parent and a quote; a tab may take another post for the quote.
MCKindOf == (p :> "parent") @@ (q :> "quote") @@ (other :> "quote")
MCSeen == {{p}, {p, q}, {other}}

\* Bound: only the quote is left out for what it says.
QuoteOnly == \A d \in Call : calls[d] # None => calls[d].omitted \subseteq {q}
=============================================================================
