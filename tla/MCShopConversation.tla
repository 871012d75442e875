------------------------- MODULE MCShopConversation -------------------------
(* ShopConversation for TLC: a shirt in two colours and a bag, with a size or without, in
   three catalogues with different prices and stocks. *)
EXTENDS ShopConversation

CONSTANTS shirt, bag, red, blue, medium

Option(colour, size, price, stock) ==
  [colour |-> colour, size |-> size, price |-> price, stock |-> stock]
Product(on, price, stock, options) ==
  [on |-> on, price |-> price, stock |-> stock, options |-> options]

MCCatalogues ==
  {[p \in Products |->
      IF p = shirt THEN Product(TRUE, 2, FALSE, {Option(red, medium, 0, TRUE), Option(blue, medium, 3, FALSE)})
                   ELSE Product(TRUE, 1, TRUE, {})],
   [p \in Products |->
      IF p = shirt THEN Product(TRUE, 1, FALSE, {Option(red, None, 0, TRUE), Option(blue, medium, 3, TRUE)})
                   ELSE Product(TRUE, 3, TRUE, {Option(blue, None, 0, TRUE)})],
   [p \in Products |->
      IF p = shirt THEN Product(FALSE, 2, FALSE, {}) ELSE Product(TRUE, 1, FALSE, {})]}

\* No step and no property looks at more of the last answer than its kind and its products.
MCView ==
  <<catalog, ctx, alone, said.kind, [i \in DOMAIN said.shown |-> said.shown[i].product]>>
=============================================================================
