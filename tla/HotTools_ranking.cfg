SPECIFICATION HotSpec
CONSTANTS
  Composites <- TwoTools
  Slots = 1
  NoList = NoList
  NoCall = NoCall
  MaxCount = 2
PROPERTIES
  OutageKeepsCount
  OffersMostPopular
