CONSTANTS
  Runs = {"r1"}
  Destinations = {"d"}
  Posters = {"scheduler", "handler"}
  MaxPosts = 3
  MaxJobs = 2
SPECIFICATION DeliverySpec
PROPERTY RestartedIsRetried
CHECK_DEADLOCK FALSE
