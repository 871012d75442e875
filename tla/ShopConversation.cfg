SPECIFICATION ShopSpec
CONSTANTS
  shirt = shirt
  bag = bag
  red = red
  blue = blue
  medium = medium
  None = None
  Unsure = Unsure
  Products = {shirt, bag}
  Colours = {red, blue}
  Sizes = {medium}
  Catalogues <- MCCatalogues
VIEW MCView
PROPERTIES
  NamedProductStartsFresh
  FollowUpKeepsTheProduct
