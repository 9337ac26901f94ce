SPECIFICATION FairSpec
CONSTANTS
  alice = alice
  bob = bob
  private = private
  group = group
  Chats = {private, group}
  Members <- MCMembers
  MaxTexts <- MCMaxTexts
  MaxFiles = 1
INVARIANT TypeOK
INVARIANT TextsKept
INVARIANT RunsOfTexts
INVARIANT FilesKept
INVARIANT DrainCoversListed
PROPERTY TextDelivered
CHECK_DEADLOCK FALSE
