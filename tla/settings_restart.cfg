\* One change in the dialog, and one restart.
CONSTANTS
  web = web
  news = news
  music_and_more = music_and_more
  Trees <- PlainTrees
  Plain <- PlainTrees
  Forms <- OneForm
  References <- MCReferences
  Opens = {TRUE}
  MaxNumber = 9
  MaxKills = 1
  MaxEdits = 1
SPECIFICATION Spec
CHECK_DEADLOCK FALSE
PROPERTY
  EverySettingSurvives
