SPECIFICATION SettingsSpec
CONSTANTS
  g1 = g1
  g2 = g2
  r1 = r1
  r2 = r2
  c1 = c1
  c2 = c2
  s1 = s1
  s2 = s2
  Slugs <- TwoSlugs
  Requests <- TwoRequests
  Chats <- TwoChats
  Savers <- TwoSavers
  MaxChanges = 3
INVARIANTS
  WriteThrough
  FileKeepsUp
PROPERTY MentionsEnd
CHECK_DEADLOCK FALSE
