SPECIFICATION NoEndSpec
CONSTANTS
    Workers = {w1}
    Tasks = {t1}
    MaxVersion = 2
PROPERTIES
    TimeoutStopsJobs
