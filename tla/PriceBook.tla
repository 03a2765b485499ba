------------------------------ MODULE PriceBook ------------------------------
(***************************************************************************)
(* How a call gets its price and what it costs (pricing.go): overrides, the *)
(* router's book, its normalized index, and the four token counters.       *)
(*                                                                         *)
(* A model name is [route, stem, tail, caps]: the provider prefix, the     *)
(* model, the suffixes as a sequence, and whether it is spelled in capitals. *)
(* A price is [input, output, cacheRead, cacheNew, mode], rates per token. *)
(* A book is [prices, suffixes, mappings]: names to prices, the suffixes   *)
(* to ignore, and names to names.  Overrides map lower-cased names to      *)
(* prices.  A book can be asked in any order Go walks its map in, so what  *)
(* resolves a name is the set of prices it may find, empty when unpriced.  *)
(***************************************************************************)
EXTENDS Integers, FiniteSets, Sequences, FiniteSetsExt

CONSTANTS
    Compatible,    \* providers and executors of the openai-compatible kind
    Claude,        \* those whose name contains claude or anthropic
    Gemini         \* those whose name contains a marker of reasoningMode

-----------------------------------------------------------------------------
(***************************************************************************)
(* Names                                                                   *)
(***************************************************************************)

IsName(n) ==
    /\ n = [part \in {"route", "stem", "tail", "caps"} |-> n[part]]
    /\ n.tail \in Seq(STRING) /\ n.caps \in BOOLEAN
NoName == [route |-> "", stem |-> "", tail |-> <<>>, caps |-> FALSE]
Lower(n) == [n EXCEPT !.caps = FALSE]
EqualFold(m, n) == Lower(m) = Lower(n)

\* normalizeCatalogName: lower case, and the provider prefix dropped.
CatalogName(n) == [Lower(n) EXCEPT !.route = ""]

\* The loop of stripIgnoredSuffixes: every ignored suffix at the end goes.
Strip(n, suffixes) ==
    LET kept == {i \in DOMAIN n.tail : n.tail[i] \notin suffixes}
    IN [n EXCEPT !.tail = SubSeq(@, 1, Max(kept \cup {0}))]

\* comparisonModelName.
ComparisonName(n, book) ==
    LET plain == Strip(CatalogName(n), book.suffixes)
    IN Strip(IF plain \in DOMAIN book.mappings THEN book.mappings[plain] ELSE plain,
             book.suffixes)

-----------------------------------------------------------------------------
(***************************************************************************)
(* Prices                                                                  *)
(***************************************************************************)

RateColumns == {"input", "output", "cacheRead", "cacheNew"}
IsPrice(p) == RateColumns \subseteq DOMAIN p /\ \A f \in RateColumns : p[f] \in Int

\* The entries that share a comparison name, and whether loadPriceBook marked
\* that name ambiguous: some entry's rates differ from the first one's.
Spellings(cmp, book) == {k \in DOMAIN book.prices : ComparisonName(k, book) = cmp}
Ambiguous(cmp, book) ==
    \E k, l \in Spellings(cmp, book) : book.prices[k] # book.prices[l]

\* The exact entry, else any entry that differs in case only: bookPrice, and
\* the middle of resolve.
BookPrices(n, book) ==
    IF n \in DOMAIN book.prices
    THEN {book.prices[n]}
    ELSE {book.prices[k] : k \in {k \in DOMAIN book.prices : EqualFold(k, n)}}

\* What the normalized index knows, unless it would have to guess.
IndexedPrices(n, book) ==
    LET cmp == ComparisonName(n, book)
    IN IF Ambiguous(cmp, book) THEN {}
                               ELSE {book.prices[k] : k \in Spellings(cmp, book)}

\* resolve.
Resolve(n, book, overrides) ==
    IF n = NoName THEN {}
    ELSE IF Lower(n) \in DOMAIN overrides THEN {overrides[Lower(n)]}
    ELSE IF BookPrices(n, book) # {} THEN BookPrices(n, book)
    ELSE IndexedPrices(n, book)

\* resolveRecordPrice: the provider's model first, its alias second.
RecordPrices(r, book, overrides) ==
    LET own == Resolve(r.model, book, overrides)
    IN IF own = {} /\ r.alias # r.model THEN Resolve(r.alias, book, overrides) ELSE own

-----------------------------------------------------------------------------
(***************************************************************************)
(* Costs                                                                   *)
(***************************************************************************)

Names(r) == {r.provider, r.exec}

\* defaultAccountingMode.
DefaultMode(r) ==
    IF Names(r) \cap Compatible = {} /\ Names(r) \cap Claude # {}
    THEN "input_excludes_cache"
    ELSE "input_includes_cache"

\* The price's mode, else the record's own, else the default.
AccountingMode(r, price) ==
    CASE price.mode # "" -> price.mode
      [] price.mode = "" /\ r.mode # "" -> r.mode
      [] OTHER -> DefaultMode(r)

\* reasoningMode; a record that names its mode is left out.
ReasoningSeparate(r) == Names(r) \cap Gemini # {}

CacheRead(r) == IF r.cacheRead = 0 THEN r.cached ELSE r.cacheRead

\* The input tokens that are charged at the input rate.
Billable(r, price) ==
    IF AccountingMode(r, price) = "input_includes_cache"
    THEN Max({r.input - CacheRead(r) - r.cacheNew, 0})
    ELSE r.input

\* tokenCostUSD.
Charge(tokens, rate) == IF tokens <= 0 \/ rate <= 0 THEN 0 ELSE tokens * rate

\* estimateRecordCost, for one of the prices that may be found.
Cost(r, price) ==
    LET written == r.output + (IF ReasoningSeparate(r) THEN r.reasoning ELSE 0)
    IN Charge(Billable(r, price), price.input) + Charge(written, price.output)
       + Charge(CacheRead(r), price.cacheRead) + Charge(r.cacheNew, price.cacheNew)

\* The costs the record may be given, empty when it is unpriced.
Costs(r, book, overrides) ==
    {Cost(r, price) : price \in RecordPrices(r, book, overrides)}
=============================================================================
