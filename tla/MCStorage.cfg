CONSTANTS
  Texts = {hello}
  MaxUsers = 2
  MaxTopics = 2
  MaxPosts = 2
SPECIFICATION Spec
INVARIANTS StorageTypeOK LikesAreCounted IdsNameOneMessage PagesCoverTopic
