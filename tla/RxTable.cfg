SPECIFICATION Spec
CHECK_DEADLOCK FALSE
CONSTANTS
  TopicLists <- MCTopicLists
  Ids <- MCIds
  Texts = {"0.5", "1.0"}
  WidthOf <- MCWidthOf
  Heights = {10}
  Growable = {TRUE, FALSE}
  Margin = 1
INVARIANTS
  TypeOK
  RowsDistinct
  ScreenShowsTable
