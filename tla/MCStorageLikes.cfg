CONSTANTS
  Texts = {hello}
  MaxUsers = 1
  MaxTopics = 2
  MaxPosts = 1
SPECIFICATION Spec
INVARIANTS AlreadyLikedIsTrue
