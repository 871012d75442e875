-------------------------- MODULE ShopConversation --------------------------
(***************************************************************************)
(* What the assistant of a shop remembers between two messages, and what it *)
(* answers from it: TurnDecision.ts, the shop part of ConversationEngine.ts  *)
(* and EcommerceService.ts, over a catalogue that the merchant publishes     *)
(* anew at any time.                                                         *)
(*                                                                           *)
(* A message is what the parsers make of a text: an intent, what the         *)
(* question is about, a colour and a size.  PRICE stands for AVAILABILITY    *)
(* and VARIANT_SELECTION too.  What a search finds is any list of products   *)
(* on sale that fit; an answer is the list of products it tells of, each at  *)
(* its price and stock of that moment.  A turn is one step: that it commits  *)
(* only over the conversation it has read is HumanHandoff's matter.          *)
(***************************************************************************)
EXTENDS Naturals, FiniteSets, SequencesExt

CONSTANTS
  Products, Colours, Sizes,
  Catalogues,  \* what the merchant may publish: per product on, price, stock and options
  None, Unsure

Maybe(S) == S \cup {None}

\* An option is a variant: a price of 0 is no price of its own.
ASSUME CatalogueAssumption ==
  /\ IsFiniteSet(Products)
  /\ \A c \in Catalogues : \A p \in Products :
       /\ c[p].on \in BOOLEAN /\ c[p].price \in Nat /\ c[p].stock \in BOOLEAN
       /\ IsFiniteSet(c[p].options)
       /\ \A o \in c[p].options : /\ o.colour \in Maybe(Colours) /\ o.size \in Maybe(Sizes)
                                  /\ o.price \in Nat /\ o.stock \in BOOLEAN

ASSUME NoneAssumption == None \notin Products /\ Unsure \notin Maybe(Products)

VARIABLES
  catalog, \* the products of the account
  ctx,     \* productContext of the conversation
  said,    \* the last message and its answer
  alone    \* the product the customer was last told of alone

shopVars == <<catalog, ctx, said, alone>>

EmptyContext == [selected |-> None, colour |-> None, size |-> None, viewed |-> <<>>,
                 compared |-> <<>>]

\* about: nothing named ("it"), a product of the catalogue, words that may name one, a
\* category, a place in the last list, or a pair.  what: that product or place.
\* comparative: the text asks which one is cheaper or better.
Message(intents, abouts, whats, comparatives) ==
  [intent: intents, about: abouts, what: whats, colour: Maybe(Colours), size: Maybe(Sizes),
   comparative: comparatives]
Questions == {"PRICE", "DETAIL", "ATTRIBUTE", "BUY"}
Messages ==
  Message(Questions, {"it", "words", "category"}, {None}, {FALSE})
  \cup Message(Questions, {"named"}, Products, {FALSE})
  \cup Message(Questions, {"place"}, 1..Cardinality(Products), {FALSE})
  \cup Message({"PRICE"}, {"it", "category"}, {None}, {TRUE})
  \cup Message({"PRICE"}, {"named"}, Products, {TRUE})
  \cup Message({"SEARCH", "RECOMMENDATION"}, {"it", "words", "category"}, {None}, {FALSE})
  \cup Message({"COMPARE"}, {"it", "pair", "category"}, {None}, {FALSE})
  \cup Message({"COMPARE"}, {"named"}, Products, {FALSE})

NoAnswer == [n |-> 0, kind |-> "none", shown |-> <<>>,
             msg |-> CHOOSE m \in Messages : m.about = "it" /\ m.intent = "PRICE"]

ShopInit ==
  /\ catalog \in Catalogues
  /\ ctx = EmptyContext /\ said = NoAnswer /\ alone = None

-----------------------------------------------------------------------------
(* EcommerceService *)

OnSale == {p \in Products : catalog[p].on}
Given(colour, size) == colour # None \/ size # None
Fits(option, colour, size) ==
  (colour = None \/ option.colour = colour) /\ (size = None \/ option.size = size)
Matching(p, colour, size) == {o \in catalog[p].options : Fits(o, colour, size)}

NoOption == [colour |-> None, size |-> None, price |-> 0, stock |-> FALSE]
Told(p, option, stock) ==
  [product |-> p, option |-> option, stock |-> stock,
   price |-> IF option.price # 0 THEN option.price ELSE catalog[p].price]

\* getProductFact: a colour or size that is asked for picks the option, if one option fits.
Fact(p, colour, size) ==
  LET fit == Matching(p, colour, size) IN
    Told(p, IF Given(colour, size) /\ Cardinality(fit) = 1 THEN CHOOSE o \in fit : TRUE ELSE NoOption,
         IF Given(colour, size) \/ fit # {} THEN \E o \in fit : o.stock ELSE catalog[p].stock)

\* searchProducts
Lists(S) == {l \in UNION {[1..n -> S] : n \in 0..Cardinality(S)} : IsInjective(l)}
Found(colour, size) ==
  Lists({p \in OnSale : Given(colour, size) => Matching(p, colour, size) # {}})
Facts(list, colour, size) == [i \in DOMAIN list |-> Fact(list[i], colour, size)]

\* rankProducts looks at the options only when one is asked for, at the product otherwise.
Recommended(p, colour, size) ==
  LET fit == Matching(p, colour, size)
      best == {o \in fit : o.stock \/ \A other \in fit : ~other.stock}
  IN IF Given(colour, size) THEN {Told(p, o, o.stock) : o \in best}
     ELSE {Told(p, NoOption, catalog[p].stock)}

-----------------------------------------------------------------------------
(* TurnDecision *)

Comparative(m) == m.comparative \/ m.intent \in {"COMPARE", "RECOMMENDATION"}

\* Rule D: a comparative question after a list of several is about that list.
ComparesList(m) == Comparative(m) /\ Len(ctx.viewed) >= 2 /\ m.about # "words"

\* resolveProductContext: isExplicit
Explicit(m) ==
  \/ m.about \in {"words", "category"} \/ m.intent = "RECOMMENDATION"
  \/ m.about = "place" /\ ctx.selected = None

\* Fault: a product that is named by the catalogue inherits as well.
NamedInherits(m) == ~Explicit(m) /\ ctx.selected # None

\* The colour and size that the message leaves open are those of the active product.
Inherits(m) == ~Explicit(m) /\ m.about # "named" /\ ctx.selected # None

Colour(m) == IF m.colour = None /\ Inherits(m) THEN ctx.colour ELSE m.colour
Size(m) == IF m.size = None /\ Inherits(m) THEN ctx.size ELSE m.size

-----------------------------------------------------------------------------
(* ConversationEngine *)

Answer(m, kind, shown) == said' = [n |-> 1 - said.n, kind |-> kind, shown |-> shown, msg |-> m]
Selecting(told, colour, size) ==
  [ctx EXCEPT !.selected = told.product,
     !.colour = IF told.option # NoOption THEN told.option.colour ELSE colour,
     !.size = IF told.option # NoOption THEN told.option.size ELSE size]
Deselected(viewed) == [EmptyContext EXCEPT !.viewed = viewed, !.compared = ctx.compared]

\* One product is told of, and becomes the active one.
TellOne(m, told, colour, size) ==
  /\ Answer(m, "fact", <<told>>)
  /\ ctx' = Selecting(told, colour, size) /\ alone' = told.product

\* A list to choose from.
Offer(m, facts) ==
  /\ Answer(m, "choice", facts)
  /\ ctx' = Deselected([i \in DOMAIN facts |-> facts[i].product])
  /\ UNCHANGED alone

NotFound(m) == Answer(m, "none", <<>>) /\ UNCHANGED <<ctx, alone>>

\* Fault: a search that finds several products keeps the selection.
SearchKeepsSelection(m) ==
  /\ m.intent = "SEARCH"
  /\ \E list \in Found(Colour(m), Size(m)) :
       LET facts == Facts(list, Colour(m), Size(m)) IN
         /\ Answer(m, IF Len(list) = 1 THEN "fact" ELSE "choice", facts)
         /\ ctx' = IF Len(list) = 1 THEN [Deselected(list) EXCEPT !.selected = list[1]]
                   ELSE [ctx EXCEPT !.viewed = list]
         /\ alone' = IF Len(list) = 1 THEN list[1] ELSE alone

Search(m) ==
  /\ m.intent = "SEARCH"
  /\ \E list \in Found(Colour(m), Size(m)) :
       LET facts == Facts(list, Colour(m), Size(m)) IN
         IF Len(list) = 1
         THEN /\ Answer(m, "fact", facts) /\ alone' = list[1]
              /\ ctx' = [Deselected(list) EXCEPT !.selected = list[1]]
         ELSE Offer(m, facts)

Recommend(m) ==
  /\ m.intent = "RECOMMENDATION" /\ ~ComparesList(m)
  /\ \/ \E p \in OnSale : \E told \in Recommended(p, m.colour, m.size) :
          /\ told.stock
          /\ Answer(m, "fact", <<told>>) /\ alone' = p
          /\ ctx' = [Selecting(told, None, None) EXCEPT
                       !.viewed = IF p \in ToSet(@) THEN @ ELSE Append(@, p)]
     \/ NotFound(m)

\* The products a comparison is about, as sequences of lookups: the active product or one that
\* is named, and what it is compared with.  Rule D drops a name, and a place in a list of
\* several; what is left with fewer than two is a comparison of the last list.
AsTarget(p) == <<<<p, None, None>>>>
NameTargets(m) == IF m.about = "named" THEN {<<>>, AsTarget(m.what)} ELSE {<<>>}
FirstTargets(m) ==
  IF ctx.selected = None THEN NameTargets(m) ELSE {<<<<ctx.selected, ctx.colour, ctx.size>>>>}
SecondTargets(m) ==
  IF m.about = "category" THEN {AsTarget(p) : p \in Maybe(OnSale)} ELSE NameTargets(m)
LastList == [i \in 1..(IF Len(ctx.viewed) < 4 THEN Len(ctx.viewed) ELSE 4) |->
               <<ctx.viewed[i], None, None>>]
Targets(m) ==
  IF m.about = "pair" THEN {AsTarget(p) \o AsTarget(q) : p \in OnSale, q \in OnSale}
  ELSE {IF Len(a \o b) < 2 /\ Len(ctx.viewed) >= 2 THEN LastList ELSE a \o b
        : a \in FirstTargets(m), b \in SecondTargets(m)}

\* compareProducts: what is off sale or comes twice is left out.
Compared(targets) ==
  LET first(i) == /\ targets[i][1] \in OnSale
                  /\ \A j \in 1..(i - 1) : targets[j][1] # targets[i][1]
      kept == SetToSortSeq({i \in DOMAIN targets : first(i)}, <)
  IN [k \in DOMAIN kept |-> LET t == targets[kept[k]] IN Fact(t[1], t[2], t[3])]

Compare(m) ==
  /\ m.intent = "COMPARE" \/ ComparesList(m)
  /\ \E targets \in Targets(m) :
       LET facts == Compared(targets) IN
         IF Len(facts) < 2 THEN NotFound(m)
         ELSE /\ Answer(m, "comparison", facts)
              /\ ctx' = [ctx EXCEPT !.compared =
                           [i \in DOMAIN facts |-> <<facts[i].product, facts[i].price>>]]
              /\ UNCHANGED alone

\* The cheapest of the comparison, by the prices it was made with.
Cheapest ==
  LET cheap(i) == \A j \in DOMAIN ctx.compared : ctx.compared[i][2] <= ctx.compared[j][2]
  IN ctx.compared[CHOOSE i \in DOMAIN ctx.compared : cheap(i) /\ \A j \in 1..(i - 1) : ~cheap(j)][1]

\* The product a question is about, as far as it is known before the catalogue is searched.
Target(m) ==
  IF m.comparative /\ m.about # "category" /\ Len(ctx.compared) >= 2 THEN Cheapest
  ELSE IF m.about = "named" THEN m.what
  ELSE IF m.about = "place" /\ ctx.viewed # <<>>
       THEN IF m.what <= Len(ctx.viewed) THEN ctx.viewed[m.what] ELSE None
  ELSE IF m.about \in {"it", "place"} THEN ctx.selected ELSE None

\* The options looked up are the message's own for a product that it describes or names;
\* those of the active product fill in for any other.
OwnOptions(m, target) ==
  \/ target = None /\ (m.about \in {"words", "category"} \/ (m.about = "place" /\ ctx.selected = None))
  \/ m.about = "named" /\ target = m.what
LookupColour(m, target) ==
  IF m.colour # None \/ OwnOptions(m, target) THEN Colour(m) ELSE ctx.colour
LookupSize(m, target) ==
  IF m.size # None \/ OwnOptions(m, target) THEN Size(m) ELSE ctx.size

\* A question with a known target, or with words that the catalogue takes for a product.
AskProduct(m) ==
  LET target == Target(m) IN
    /\ m.intent \in Questions /\ ~ComparesList(m)
    /\ \E p \in IF m.about = "words" THEN OnSale ELSE {target} \cap OnSale :
         LET colour == LookupColour(m, target)
             size == LookupSize(m, target)
         IN TellOne(m, Fact(p, colour, size), colour, size)

\* Nothing was found by name or memory, and no category is named.
AskUnknown(m) ==
  /\ m.intent \in Questions /\ ~ComparesList(m) /\ m.about # "category"
  /\ m.about = "words" \/ Target(m) \notin OnSale
  /\ NotFound(m)

\* The price of a category, or an order from it, needs a choice.  Its details are told of
\* the first product alone, without making it the active one; its attributes of all.  Words
\* that name no product are searched for in the same way.
AskSeveral(m) ==
  /\ m.intent \in Questions /\ ~ComparesList(m)
  /\ m.about = "category" \/ (m.about = "words" /\ m.intent \in {"DETAIL", "ATTRIBUTE"})
  /\ \E list \in Found(None, None) :
       LET facts == Facts(list, None, None)
           asked == m.intent \in {"PRICE", "BUY"}
       IN CASE list = <<>> -> NotFound(m)
            [] Len(list) = 1 ->
                 TellOne(m, IF asked THEN Fact(list[1], m.colour, m.size) ELSE facts[1],
                         m.colour, m.size)
            [] Len(list) > 1 /\ asked -> Offer(m, facts)
            [] Len(list) > 1 /\ m.intent = "DETAIL" ->
                 Answer(m, "first", <<facts[1]>>) /\ alone' = Unsure /\ UNCHANGED ctx
            [] Len(list) > 1 /\ m.intent = "ATTRIBUTE" ->
                 Answer(m, "list", facts) /\ UNCHANGED <<ctx, alone>>

\* createWorkflowSessionForTurn: an order begins with the product filled in, if it is in stock
\* in the option asked for.  The workflow's data take the place of the product context.
Order(m) ==
  LET colour == IF m.colour # None THEN m.colour ELSE ctx.colour
      size == IF m.size # None THEN m.size ELSE ctx.size
      known == CASE m.about = "named" -> {m.what}
                 [] m.about \in {"it", "place"} -> {ctx.selected}
                 [] m.about \in {"words", "category"} -> OnSale
      ready(p) == /\ Fact(p, colour, size).stock
                  /\ Given(colour, size) => Fact(p, colour, size).option # NoOption
  IN /\ m.intent = "BUY"
     /\ \/ \E p \in known \cap OnSale : ready(p) /\ Answer(m, "order", <<Fact(p, colour, size)>>)
        \/ /\ m.about \in {"words", "category"} \/ \A p \in known \cap OnSale : ~ready(p)
           /\ Answer(m, "order", <<>>)
     /\ ctx' = EmptyContext /\ UNCHANGED alone

\* publishLocked retires every product and variant and brings back those it publishes.
Publish ==
  /\ catalog' \in Catalogues
  /\ UNCHANGED <<ctx, said, alone>>

-----------------------------------------------------------------------------
Turn ==
  /\ \E m \in Messages :
       \/ Search(m) \/ Recommend(m) \/ Compare(m)
       \/ AskProduct(m) \/ AskUnknown(m) \/ AskSeveral(m) \/ Order(m)
  /\ UNCHANGED catalog

ShopNext == Turn \/ Publish

ShopSpec == ShopInit /\ [][ShopNext]_shopVars

-----------------------------------------------------------------------------
(* Properties *)

Answered == said'.n # said.n
Plain(m) == m.intent \in Questions /\ ~m.comparative

\* "A product the customer names in this message starts a fresh selection: its size/colour
\* come from this message only, never from the previous turn" (TurnDecision.ts): whatever was
\* talked of before, the price and stock told of a product that the message names or describes
\* are those of the options it asks for, or of the product as such where words were searched
\* for.  An order is no such answer: createWorkflowSessionForTurn does take the colour and size of
\* the context where the message gives none, also for another product.
NamedProductStartsFresh ==
  [][LET m == said'.msg IN
       Answered /\ Plain(m) /\ m.about \in {"named", "words"} /\ said'.kind = "fact" =>
         \E p \in OnSale :
           \/ (m.about = "named" => p = m.what) /\ said'.shown = <<Fact(p, m.colour, m.size)>>
           \/ m.about = "words" /\ said'.shown = <<Fact(p, None, None)>>]_shopVars

\* A question or order that names nothing is answered about the product the customer was last
\* told of alone or about none; right after that product it is answered, if it is still on
\* sale.  The n-th of a list that was just offered is the n-th of that list.
FollowUpKeepsTheProduct ==
  [][LET m == said'.msg
         told == {said'.shown[i].product : i \in DOMAIN said'.shown}
     IN Answered /\ Plain(m) =>
          /\ m.about = "it" /\ alone # Unsure =>
               /\ told \subseteq {alone}
               /\ said.kind = "fact" /\ said'.kind # "order" => told = {alone} \cap OnSale
          /\ m.about = "place" /\ said.kind = "choice" /\ said'.kind # "order" =>
               told = {said.shown[i].product : i \in DOMAIN said.shown \cap {m.what}} \cap OnSale]_shopVars
=============================================================================
